---- MODULE Spec2Model ----
(***************************************************************************)
(* Exercise derivation in fluentia: the ORM event hooks of                 *)
(* fluentia/apps/term/models.py that get-or-create (and, for listen        *)
(* exercises, delete) Exercise rows when linguistic rows are written.      *)
(*                                                                         *)
(* Every action is one committed write together with the hook SQLAlchemy   *)
(* fires for it in the same flush.  The Exercise table has no unique       *)
(* constraint and a surrogate id, so it is a bag of attribute tuples: two  *)
(* rows that differ only in id are two copies of one tuple.                *)
(***************************************************************************)
EXTENDS Bags, FiniteSets, Integers, Sequences, TLC

(* ------------------------------ bounds --------------------------------- *)
MaxLexical == 4
MaxDefinitions == 1
MaxExamples == 1
MaxPronunciations == 2
MaxRows == 6

(* ------------------------------ inputs --------------------------------- *)
\* Language values used as inputs (two members of constants.Language).
Languages == {"pt-br", "en"}

\* (term, origin_language) keys a request may name.
TermUniverse == {<<"casa", "pt-br">>, <<"house", "en">>}

\* TermLexicalType.
SYNONYM == "synonym"
ANTONYM == "antonym"
FORM == "form"
TermLexicalType == {SYNONYM, ANTONYM, FORM}

\* ExerciseType.
ORDER_SENTENCE == "order-sentence"
LISTEN_TERM == "listen-term"
LISTEN_SENTENCE == "listen-sentence"
SPEAK_TERM == "speak-term"
SPEAK_SENTENCE == "speak-sentence"
MCHOICE_TERM == "mchoice-term"
MCHOICE_TERM_TRANSLATION == "mchoice-term-translation"

\* SQL NULL / Python None of a text column and of an integer column.
NULL == "NULL"
NULL_ID == 0

\* Pronunciation.audio_file is str | None: None, the empty string, or a url.
EMPTY == ""
URL == "https://audio"
AudioValues == {NULL, EMPTY, URL}

\* Python truthiness of audio_file (`not target.audio_file`).
Truthy(audio) == audio # NULL /\ audio # EMPTY

(* ------------------------------ state ---------------------------------- *)
VARIABLES
    terms,                   \* Term rows: set of <<term, origin_language>>
    lexicals,                \* TermLexical rows, index = id
    definitions,             \* TermDefinition rows, index = id
    definition_translations, \* TermDefinitionTranslation keys <<language, term_definition_id>>
    examples,                \* TermExample rows, index = id
    example_translations,    \* TermExampleTranslation keys <<language, term_example_id>>
    pronunciations,          \* Pronunciation rows, index = id
    pronunciation_links,     \* PronunciationLink rows keyed by pronunciation_id
    exercises,               \* Exercise rows: bag of attribute tuples
    example_links,           \* TermExampleLink rows: set of attribute tuples
    translation_rows,        \* TermDefinitionTranslation rows with their text
    users,                   \* User rows, index = id
    cardsets,                \* CardSet rows, index = id
    cards,                   \* Card rows, index = id
    tokens,                  \* bearer tokens issued: sub and the user logged in
    request,                 \* the request body or call being handled, or NoRequest
    response                 \* its outcome, PENDING until the handler has run

\* Placeholders of request and response while no request is being handled.
NoRequest == [schema |-> "none", endpoint |-> "none"]
PENDING == "pending"

table_vars == <<terms, lexicals, definitions, definition_translations, examples,
                example_translations, pronunciations, pronunciation_links, exercises>>

\* Tables no hook reads or writes.
other_vars == <<example_links, translation_rows, users, cardsets, cards, tokens>>

vars == <<terms, lexicals, definitions, definition_translations, examples,
          example_translations, pronunciations, pronunciation_links, exercises,
          example_links, translation_rows, users, cardsets, cards, tokens,
          request, response>>

(* ---------------------------- Exercise rows ---------------------------- *)
ExerciseTextFields == {"language", "type", "translation_language", "term", "origin_language"}
ExerciseIdFields == {"term_example_id", "pronunciation_id", "term_lexical_id", "term_definition_id"}
ExerciseFields == ExerciseTextFields \cup ExerciseIdFields

\* The row Exercise(**kwargs) stores: unnamed columns default to None.
Exercise(kwargs) ==
    [f \in ExerciseFields |->
        IF f \in DOMAIN kwargs THEN kwargs[f]
        ELSE IF f \in ExerciseIdFields THEN NULL_ID ELSE NULL]

\* select(Model).filter_by(**kwargs): rows equal to kwargs on the named columns.
filter_by(ex, kwargs) ==
    {e \in BagToSet(ex) : \A f \in DOMAIN kwargs : e[f] = kwargs[f]}

get_or_create_always_inserts(ex, kwargs) ==
    ex (+) SetToBag({Exercise(kwargs)})

\* get_or_create_object(Exercise, session, **kwargs).  The except branch is
\* taken only when the commit fails; Exercise has no unique constraint and
\* the hooks pass keys of rows that exist, so a serial commit succeeds.
get_or_create_object(ex, kwargs) ==
    IF filter_by(ex, kwargs) # {}
    THEN ex
    ELSE ex (+) SetToBag({Exercise(kwargs)})

(* ------------------------------- Init ---------------------------------- *)
Init ==
    /\ terms = {}
    /\ lexicals = <<>>
    /\ definitions = <<>>
    /\ definition_translations = {}
    /\ examples = <<>>
    /\ example_translations = {}
    /\ pronunciations = <<>>
    /\ pronunciation_links = <<>>
    /\ exercises = EmptyBag
    /\ example_links = {}
    /\ translation_rows = {}
    /\ users = <<>>
    /\ cardsets = <<>>
    /\ cards = <<>>
    /\ tokens = {}
    /\ request = NoRequest
    /\ response = PENDING

\* Number of source rows stored; the model stops inserting at MaxRows.
Rows ==
    Cardinality(terms) + Len(lexicals) + Len(definitions)
    + Cardinality(definition_translations) + Len(examples)
    + Cardinality(example_translations) + Len(pronunciations)
    + Cardinality(DOMAIN pronunciation_links)

(* ------------------------------ hooks ---------------------------------- *)
insert_speak_term_exercise_noop(ex, target) == ex

\* @listens_for(Term, 'after_insert')
insert_speak_term_exercise(ex, target) ==
    get_or_create_object(ex,
        [term |-> target[1], origin_language |-> target[2],
         language |-> target[2], type |-> SPEAK_TERM])

\* create_term: the primary key rejects an existing (term, origin_language).
create_term(t) ==
    /\ Rows < MaxRows
    /\ t \notin terms
    /\ terms' = terms \cup {t}
    /\ exercises' = insert_speak_term_exercise(exercises, t)
    /\ UNCHANGED <<lexicals, definitions, definition_translations, examples,
                   example_translations, pronunciations, pronunciation_links>>

insert_speak_sentence_exercise_noop(ex, target_id, target_language) == ex

insert_speak_sentence_exercise_and_order(ex, target_id, target_language) ==
    get_or_create_object(
        get_or_create_object(ex,
            [term_example_id |-> target_id, type |-> SPEAK_SENTENCE,
             language |-> target_language]),
        [term_example_id |-> target_id, type |-> ORDER_SENTENCE,
         language |-> target_language])

\* @listens_for(TermExample, 'after_insert')
insert_speak_sentence_exercise(ex, target_id, target_language) ==
    get_or_create_object(ex,
        [term_example_id |-> target_id, type |-> SPEAK_SENTENCE,
         language |-> target_language])

\* TermExample.create: a new row with the next id.
create_example(language) ==
    /\ Rows < MaxRows
    /\ Len(examples) < MaxExamples
    /\ examples' = Append(examples, [language |-> language])
    /\ exercises' = insert_speak_sentence_exercise(exercises, Len(examples) + 1, language)
    /\ UNCHANGED <<terms, lexicals, definitions, definition_translations,
                   example_translations, pronunciations, pronunciation_links>>

insert_order_exercise_own_language(ex, target_language, target_example_id) ==
    get_or_create_object(ex,
        [language |-> target_language,
         term_example_id |-> target_example_id,
         translation_language |-> target_language,
         type |-> ORDER_SENTENCE])

\* @listens_for(TermExampleTranslation, 'after_insert')
insert_order_exercise(ex, target_language, target_example_id) ==
    LET db_example == examples[target_example_id] IN
    get_or_create_object(ex,
        [language |-> db_example.language,
         term_example_id |-> target_example_id,
         translation_language |-> target_language,
         type |-> ORDER_SENTENCE])

\* create(TermExampleTranslation, ...): the foreign key needs the example and
\* the primary key (language, term_example_id) rejects a second translation.
create_example_translation(language, term_example_id) ==
    /\ Rows < MaxRows
    /\ term_example_id \in DOMAIN examples
    /\ <<language, term_example_id>> \notin example_translations
    /\ example_translations' = example_translations \cup {<<language, term_example_id>>}
    /\ exercises' = insert_order_exercise(exercises, language, term_example_id)
    /\ UNCHANGED <<terms, lexicals, definitions, definition_translations, examples,
                   pronunciations, pronunciation_links>>

antonym_count_any_type(lex, term, origin_language) ==
    Cardinality({i \in DOMAIN lex :
        /\ lex[i].term = term
        /\ lex[i].origin_language = origin_language})

\* count(TermLexical.id) where term, origin_language match and type = ANTONYM.
antonym_count(lex, term, origin_language) ==
    Cardinality({i \in DOMAIN lex :
        /\ lex[i].term = term
        /\ lex[i].origin_language = origin_language
        /\ lex[i].type = ANTONYM})

insert_mchoice_term_exercise_at_two(ex, lex, target) ==
    IF target.type # ANTONYM THEN ex
    ELSE IF antonym_count(lex, target.term, target.origin_language) >= 2
    THEN get_or_create_object(ex,
            [term |-> target.term, origin_language |-> target.origin_language,
             type |-> MCHOICE_TERM, language |-> target.origin_language])
    ELSE ex

\* @listens_for(TermLexical, 'after_insert'); lex is the table with target in it.
insert_mchoice_term_exercise(ex, lex, target) ==
    IF target.type # ANTONYM THEN ex
    ELSE IF antonym_count(lex, target.term, target.origin_language) >= 3
    THEN get_or_create_object(ex,
            [term |-> target.term, origin_language |-> target.origin_language,
             type |-> MCHOICE_TERM, language |-> target.origin_language])
    ELSE ex

\* TermLexical.create / create_lexical: the term must exist.
create_lexical(t, type) ==
    /\ Rows < MaxRows
    /\ Len(lexicals) < MaxLexical
    /\ t \in terms
    /\ LET target == [term |-> t[1], origin_language |-> t[2], type |-> type]
           lex == Append(lexicals, target)
       IN /\ lexicals' = lex
          /\ exercises' = insert_mchoice_term_exercise(exercises, lex, target)
    /\ UNCHANGED <<terms, definitions, definition_translations, examples,
                   example_translations, pronunciations, pronunciation_links>>

\* TermDefinition.create: the term must exist; no hook listens to it.
create_definition(t) ==
    /\ Rows < MaxRows
    /\ Len(definitions) < MaxDefinitions
    /\ t \in terms
    /\ definitions' = Append(definitions, [term |-> t[1], origin_language |-> t[2]])
    /\ UNCHANGED <<terms, lexicals, definition_translations, examples,
                   example_translations, pronunciations, pronunciation_links, exercises>>

insert_mchoice_term_translation_exercise_no_threshold(ex, target_language, target_definition_id) ==
    LET definition == definitions[target_definition_id] IN
    get_or_create_object(ex,
        [translation_language |-> target_language,
         language |-> definition.origin_language,
         term_definition_id |-> target_definition_id,
         type |-> MCHOICE_TERM_TRANSLATION])

\* @listens_for(TermDefinitionTranslation, 'after_insert')
insert_mchoice_term_translation_exercise(ex, target_language, target_definition_id) ==
    LET definition == definitions[target_definition_id]
        count == antonym_count(lexicals, definition.term, definition.origin_language)
    IN IF count >= 3
       THEN get_or_create_object(ex,
                [translation_language |-> target_language,
                 language |-> definition.origin_language,
                 term_definition_id |-> target_definition_id,
                 type |-> MCHOICE_TERM_TRANSLATION])
       ELSE ex

\* TermDefinitionTranslation.create: foreign key to the definition, primary
\* key (language, term_definition_id).
create_definition_translation(language, term_definition_id) ==
    /\ Rows < MaxRows
    /\ term_definition_id \in DOMAIN definitions
    /\ <<language, term_definition_id>> \notin definition_translations
    /\ definition_translations' =
            definition_translations \cup {<<language, term_definition_id>>}
    /\ exercises' = insert_mchoice_term_translation_exercise(
                        exercises, language, term_definition_id)
    /\ UNCHANGED <<terms, lexicals, definitions, examples, example_translations,
                   pronunciations, pronunciation_links>>

\* Pronunciation.create / PronunciationFactory: no hook listens to the insert.
create_pronunciation(audio_file) ==
    /\ Rows < MaxRows
    /\ Len(pronunciations) < MaxPronunciations
    /\ pronunciations' = Append(pronunciations, [audio_file |-> audio_file])
    /\ UNCHANGED <<terms, lexicals, definitions, definition_translations, examples,
                   example_translations, pronunciation_links, exercises>>

\* The PronunciationLink rows a request can store for pronunciation p: the
\* foreign keys need the target row, and one target is named
\* (PronunciationLinkSchema.link_validation).
PronunciationLinkRows(p) ==
    {[pronunciation_id |-> p, term |-> t[1], origin_language |-> t[2],
      term_example_id |-> NULL_ID, term_lexical_id |-> NULL_ID] : t \in terms}
    \cup
    {[pronunciation_id |-> p, term |-> NULL, origin_language |-> NULL,
      term_example_id |-> e, term_lexical_id |-> NULL_ID] : e \in DOMAIN examples}
    \cup
    {[pronunciation_id |-> p, term |-> NULL, origin_language |-> NULL,
      term_example_id |-> NULL_ID, term_lexical_id |-> l] : l \in DOMAIN lexicals}

insert_listen_exercise_lexical_as_sentence(ex, prons, target) ==
    LET pronunciation == prons[target.pronunciation_id] IN
    IF pronunciation.audio_file = NULL THEN ex
    ELSE IF target.term # NULL
    THEN get_or_create_object(ex,
            [pronunciation_id |-> target.pronunciation_id,
             term |-> target.term,
             origin_language |-> target.origin_language,
             language |-> target.origin_language,
             type |-> LISTEN_TERM])
    ELSE IF target.term_example_id # NULL_ID
    THEN get_or_create_object(ex,
            [pronunciation_id |-> target.pronunciation_id,
             language |-> examples[target.term_example_id].language,
             term_example_id |-> target.term_example_id,
             type |-> LISTEN_SENTENCE])
    ELSE IF target.term_lexical_id # NULL_ID
    THEN get_or_create_object(ex,
            [pronunciation_id |-> target.pronunciation_id,
             language |-> lexicals[target.term_lexical_id].origin_language,
             term_lexical_id |-> target.term_lexical_id,
             type |-> LISTEN_SENTENCE])
    ELSE get_or_create_object(ex, [pronunciation_id |-> target.pronunciation_id])

insert_listen_exercise_without_audio_test(ex, prons, target) ==
    IF target.term # NULL
    THEN get_or_create_object(ex,
            [pronunciation_id |-> target.pronunciation_id,
             term |-> target.term,
             origin_language |-> target.origin_language,
             language |-> target.origin_language,
             type |-> LISTEN_TERM])
    ELSE IF target.term_example_id # NULL_ID
    THEN get_or_create_object(ex,
            [pronunciation_id |-> target.pronunciation_id,
             language |-> examples[target.term_example_id].language,
             term_example_id |-> target.term_example_id,
             type |-> LISTEN_SENTENCE])
    ELSE get_or_create_object(ex,
            [pronunciation_id |-> target.pronunciation_id,
             language |-> lexicals[target.term_lexical_id].origin_language,
             term_lexical_id |-> target.term_lexical_id,
             type |-> LISTEN_TERM])

\* @listens_for(PronunciationLink, 'after_insert'); prons is the Pronunciation
\* table the hook's session reads.
insert_listen_exercise(ex, prons, target) ==
    LET pronunciation == prons[target.pronunciation_id] IN
    IF pronunciation.audio_file = NULL THEN ex
    ELSE IF target.term # NULL
    THEN get_or_create_object(ex,
            [pronunciation_id |-> target.pronunciation_id,
             term |-> target.term,
             origin_language |-> target.origin_language,
             language |-> target.origin_language,
             type |-> LISTEN_TERM])
    ELSE IF target.term_example_id # NULL_ID
    THEN get_or_create_object(ex,
            [pronunciation_id |-> target.pronunciation_id,
             language |-> examples[target.term_example_id].language,
             term_example_id |-> target.term_example_id,
             type |-> LISTEN_SENTENCE])
    ELSE IF target.term_lexical_id # NULL_ID
    THEN get_or_create_object(ex,
            [pronunciation_id |-> target.pronunciation_id,
             language |-> lexicals[target.term_lexical_id].origin_language,
             term_lexical_id |-> target.term_lexical_id,
             type |-> LISTEN_TERM])
    ELSE get_or_create_object(ex, [pronunciation_id |-> target.pronunciation_id])

\* PronunciationLink.create / create_pronunciation: pronunciation_id is the
\* primary key, so a pronunciation has at most one link.
create_pronunciation_link(p) ==
    /\ Rows < MaxRows
    /\ p \in DOMAIN pronunciations
    /\ p \notin DOMAIN pronunciation_links
    /\ \E target \in PronunciationLinkRows(p) :
        /\ pronunciation_links' =
                [q \in DOMAIN pronunciation_links \cup {p} |->
                    IF q = p THEN target ELSE pronunciation_links[q]]
        /\ exercises' = insert_listen_exercise(exercises, pronunciations, target)
    /\ UNCHANGED <<terms, lexicals, definitions, definition_translations, examples,
                   example_translations, pronunciations>>

\* The outcomes of update_listen_exercise: .first() without ORDER BY returns
\* any one of the matching rows.
update_listen_exercise_keeps_term(ex, prons, links, target_id) ==
    IF ~Truthy(prons[target_id].audio_file)
    THEN LET found == {e \in BagToSet(ex) :
                          /\ e.pronunciation_id = target_id
                          /\ e.type \in {LISTEN_SENTENCE}}
         IN IF found = {} THEN {ex}
            ELSE {ex (-) SetToBag({db_exercise}) : db_exercise \in found}
    ELSE IF target_id \in DOMAIN links
         THEN {insert_listen_exercise(ex, prons, links[target_id])}
         ELSE {ex}

update_listen_exercise_delete_only(ex, prons, links, target_id) ==
    IF ~Truthy(prons[target_id].audio_file)
    THEN LET found == {e \in BagToSet(ex) :
                          /\ e.pronunciation_id = target_id
                          /\ e.type \in {LISTEN_SENTENCE, LISTEN_TERM}}
         IN IF found = {} THEN {ex}
            ELSE {ex (-) SetToBag({db_exercise}) : db_exercise \in found}
    ELSE {ex}

\* @listens_for(Pronunciation, 'after_update'); prons holds the updated row.
update_listen_exercise(ex, prons, links, target_id) ==
    IF ~Truthy(prons[target_id].audio_file)
    THEN LET found == {e \in BagToSet(ex) :
                          /\ e.pronunciation_id = target_id
                          /\ e.type \in {LISTEN_SENTENCE, LISTEN_TERM}}
         IN IF found = {} THEN {ex}
            ELSE {ex (-) SetToBag({db_exercise}) : db_exercise \in found}
    ELSE IF target_id \in DOMAIN links
         THEN {insert_listen_exercise(ex, prons, links[target_id])}
         ELSE {ex}

\* update_pronunciation: audio_file is set to the request's value (a request
\* that leaves it out keeps the stored one); the after_update hook runs for
\* the updated row.
update_pronunciation(p, audio_file) ==
    /\ p \in DOMAIN pronunciations
    /\ LET prons == [pronunciations EXCEPT ![p].audio_file = audio_file]
       IN /\ pronunciations' = prons
          /\ exercises' \in update_listen_exercise(exercises, prons, pronunciation_links, p)
    /\ UNCHANGED <<terms, lexicals, definitions, definition_translations, examples,
                   example_translations, pronunciation_links>>

Next ==
    \/ \E t \in TermUniverse : create_term(t)
          /\ UNCHANGED <<request, response, other_vars>>
    \/ \E l \in Languages : create_example(l)
          /\ UNCHANGED <<request, response, other_vars>>
    \/ \E l \in Languages, e \in 1..MaxExamples : create_example_translation(l, e)
          /\ UNCHANGED <<request, response, other_vars>>
    \/ \E t \in TermUniverse, ty \in TermLexicalType : create_lexical(t, ty)
          /\ UNCHANGED <<request, response, other_vars>>
    \/ \E t \in TermUniverse : create_definition(t)
          /\ UNCHANGED <<request, response, other_vars>>
    \/ \E l \in Languages, d \in 1..MaxDefinitions : create_definition_translation(l, d)
          /\ UNCHANGED <<request, response, other_vars>>
    \/ \E a \in AudioValues : create_pronunciation(a)
          /\ UNCHANGED <<request, response, other_vars>>
    \/ \E p \in 1..MaxPronunciations : create_pronunciation_link(p)
          /\ UNCHANGED <<request, response, other_vars>>
    \/ \E p \in 1..MaxPronunciations, a \in AudioValues : update_pronunciation(p, a)
          /\ UNCHANGED <<request, response, other_vars>>

Spec == Init /\ [][Next]_vars

(* ------------------------ properties of the hooks ---------------------- *)
\* Rows of the Exercise table ex that are listen exercises of pronunciation p.
ListenExercisesOf(ex, p) ==
    {e \in BagToSet(ex) :
        e.pronunciation_id = p /\ e.type \in {LISTEN_TERM, LISTEN_SENTENCE}}

\* The listen exercise the link-insert rule derives from a PronunciationLink row.
ListenExerciseFor(link) ==
    IF link.term # NULL
    THEN Exercise([type |-> LISTEN_TERM, term |-> link.term,
                   origin_language |-> link.origin_language,
                   language |-> link.origin_language,
                   pronunciation_id |-> link.pronunciation_id])
    ELSE IF link.term_example_id # NULL_ID
    THEN Exercise([type |-> LISTEN_SENTENCE,
                   term_example_id |-> link.term_example_id,
                   language |-> examples[link.term_example_id].language,
                   pronunciation_id |-> link.pronunciation_id])
    ELSE Exercise([type |-> LISTEN_TERM,
                   term_lexical_id |-> link.term_lexical_id,
                   language |-> lexicals[link.term_lexical_id].origin_language,
                   pronunciation_id |-> link.pronunciation_id])

\* C1: a step that changes a pronunciation's audio_file from a value to null
\* leaves no LISTEN_TERM or LISTEN_SENTENCE exercise with that pronunciation_id.
C1_ClearedAudioLeavesNoListenExercise ==
    [][\A p \in DOMAIN pronunciations :
          (pronunciations[p].audio_file # NULL /\ pronunciations'[p].audio_file = NULL)
          => ListenExercisesOf(exercises', p) = {}]_vars

\* C1 witness: pronunciation 1 is linked and has lost its audio and its listen
\* exercise, while pronunciation 2, linked to the same term, keeps both.
C1_Witness ==
    /\ {1, 2} \subseteq DOMAIN pronunciation_links
    /\ pronunciation_links[1].term # NULL
    /\ pronunciation_links[1].term = pronunciation_links[2].term
    /\ pronunciations[1].audio_file = NULL
    /\ ListenExercisesOf(exercises, 1) = {}
    /\ pronunciations[2].audio_file = URL
    /\ ListenExercisesOf(exercises, 2) = {ListenExerciseFor(pronunciation_links[2])}

\* C2: a step that inserts the link of a pronunciation whose audio_file is not
\* null leaves exactly one Exercise row carrying that pronunciation_id, and it is
\* the row keyed by the link's target: LISTEN_TERM with term, origin_language and
\* language = origin_language for a term link, LISTEN_SENTENCE with
\* term_example_id and the example's language for an example link, LISTEN_TERM
\* with term_lexical_id and the lexical entry's origin_language for a lexical link.
C2_LinkInsertCreatesListenExercise ==
    [][\A p \in DOMAIN pronunciations :
          (/\ p \notin DOMAIN pronunciation_links
           /\ p \in DOMAIN pronunciation_links'
           /\ pronunciations[p].audio_file # NULL)
          => /\ {e \in BagToSet(exercises') : e.pronunciation_id = p}
                    = {ListenExerciseFor(pronunciation_links'[p])}
             /\ CopiesIn(ListenExerciseFor(pronunciation_links'[p]), exercises') = 1]_vars

\* C2 witness: one audio-bearing pronunciation linked to a term and one linked
\* to an example, each with its listen exercise.
C2_Witness ==
    \E p, q \in DOMAIN pronunciation_links :
        /\ pronunciation_links[p].term # NULL
        /\ pronunciation_links[q].term_example_id # NULL_ID
        /\ pronunciations[p].audio_file # NULL
        /\ pronunciations[q].audio_file # NULL
        /\ BagIn(ListenExerciseFor(pronunciation_links[p]), exercises)
        /\ BagIn(ListenExerciseFor(pronunciation_links[q]), exercises)
        /\ ListenExerciseFor(pronunciation_links[p]).type = LISTEN_TERM
        /\ ListenExerciseFor(pronunciation_links[q]).type = LISTEN_SENTENCE

\* C3: a step that changes the audio_file of a linked pronunciation from null to
\* an audio file (a non-empty string) leaves exactly one copy of the listen
\* exercise the link-insert rule derives from its link.
C3_SetAudioCreatesListenExercise ==
    [][\A p \in DOMAIN pronunciation_links :
          (pronunciations[p].audio_file = NULL /\ Truthy(pronunciations'[p].audio_file))
          => /\ CopiesIn(ListenExerciseFor(pronunciation_links[p]), exercises') = 1
             /\ ListenExercisesOf(exercises', p)
                    = {ListenExerciseFor(pronunciation_links[p])}]_vars

\* C3 witness: a pronunciation linked to a lexical entry has an audio file and
\* its LISTEN_TERM exercise in the lexical entry's language.
C3_Witness ==
    \E p \in DOMAIN pronunciation_links :
        /\ pronunciation_links[p].term_lexical_id # NULL_ID
        /\ Truthy(pronunciations[p].audio_file)
        /\ ListenExercisesOf(exercises, p) = {ListenExerciseFor(pronunciation_links[p])}
        /\ ListenExerciseFor(pronunciation_links[p]).term_lexical_id
                = pronunciation_links[p].term_lexical_id

\* Pronunciations linked to example e.
PronunciationsOfExample(e) ==
    {p \in DOMAIN pronunciation_links : pronunciation_links[p].term_example_id = e}

\* C4: no Exercise attribute tuple is stored twice, and an example linked to
\* exactly one pronunciation, that pronunciation having an audio file, has
\* exactly one LISTEN_SENTENCE exercise.
C4_NoDuplicateExercise ==
    /\ \A e \in BagToSet(exercises) : CopiesIn(e, exercises) = 1
    /\ \A x \in DOMAIN examples :
          (/\ Cardinality(PronunciationsOfExample(x)) = 1
           /\ \A p \in PronunciationsOfExample(x) : Truthy(pronunciations[p].audio_file))
          => Cardinality({e \in BagToSet(exercises) :
                  e.type = LISTEN_SENTENCE /\ e.term_example_id = x}) = 1

\* C4 witness: an example whose only pronunciation has an audio file, with one
\* LISTEN_SENTENCE row, next to a second pronunciation without audio.
C4_Witness ==
    \E x \in DOMAIN examples :
        /\ Cardinality(PronunciationsOfExample(x)) = 1
        /\ \A p \in PronunciationsOfExample(x) : pronunciations[p].audio_file = URL
        /\ \E e \in BagToSet(exercises) :
              e.type = LISTEN_SENTENCE /\ e.term_example_id = x /\ CopiesIn(e, exercises) = 1
        /\ \E q \in DOMAIN pronunciation_links :
              q \notin PronunciationsOfExample(x) /\ ~Truthy(pronunciations[q].audio_file)

\* The MCHOICE_TERM exercise of term t.
MChoiceTermExercise(t) ==
    Exercise([term |-> t[1], origin_language |-> t[2], language |-> t[2],
              type |-> MCHOICE_TERM])

\* C5: the MCHOICE_TERM exercise of a term is stored if and only if the term has
\* at least 3 antonyms, it is stored once, and it is the only MCHOICE_TERM row
\* of that term.
C5_MChoiceTermIffThreeAntonyms ==
    \A t \in TermUniverse :
        /\ BagIn(MChoiceTermExercise(t), exercises)
                <=> antonym_count(lexicals, t[1], t[2]) >= 3
        /\ CopiesIn(MChoiceTermExercise(t), exercises) <= 1
        /\ {e \in BagToSet(exercises) :
                e.type = MCHOICE_TERM /\ e.term = t[1] /\ e.origin_language = t[2]}
              \subseteq {MChoiceTermExercise(t)}

\* C5 witness: a term with four antonyms and one MCHOICE_TERM exercise.
C5_Witness ==
    \E t \in terms :
        /\ antonym_count(lexicals, t[1], t[2]) = 4
        /\ CopiesIn(MChoiceTermExercise(t), exercises) = 1

\* The MCHOICE_TERM_TRANSLATION exercise of definition d in language l.
MChoiceTermTranslationExercise(l, d) ==
    Exercise([translation_language |-> l,
              language |-> definitions[d].origin_language,
              term_definition_id |-> d,
              type |-> MCHOICE_TERM_TRANSLATION])

\* C6: a step that inserts a definition translation leaves one copy of the
\* MCHOICE_TERM_TRANSLATION exercise of (definition, language) if the
\* definition's term has at least 3 antonyms at that moment, and no
\* MCHOICE_TERM_TRANSLATION exercise of that definition and language otherwise.
C6_DefinitionTranslationInsert ==
    [][\A tr \in definition_translations' \ definition_translations :
          IF antonym_count(lexicals, definitions[tr[2]].term,
                           definitions[tr[2]].origin_language) >= 3
          THEN CopiesIn(MChoiceTermTranslationExercise(tr[1], tr[2]), exercises') = 1
          ELSE {e \in BagToSet(exercises') :
                    /\ e.type = MCHOICE_TERM_TRANSLATION
                    /\ e.term_definition_id = tr[2]
                    /\ e.translation_language = tr[1]} = {}]_vars

\* C6 witness: a translated definition of a term with three antonyms has its
\* MCHOICE_TERM_TRANSLATION exercise.
C6_Witness ==
    \E tr \in definition_translations :
        /\ antonym_count(lexicals, definitions[tr[2]].term,
                         definitions[tr[2]].origin_language) >= 3
        /\ CopiesIn(MChoiceTermTranslationExercise(tr[1], tr[2]), exercises) = 1

\* ORDER_SENTENCE rows that reference example x.
OrderExercisesOf(x) ==
    {e \in BagToSet(exercises) : e.type = ORDER_SENTENCE /\ e.term_example_id = x}

\* C7 as stated: every stored example has an ORDER_SENTENCE exercise.
C7_ExampleInsertCreatesOrderExercise ==
    \A x \in DOMAIN examples : OrderExercisesOf(x) # {}

\* C7 as amended: the insert of a TermExample creates no ORDER_SENTENCE
\* exercise; an example has ORDER_SENTENCE exercises if and only if it has a
\* translation, and each of them carries a translation_language.
C7_OrderExerciseNeedsTranslation ==
    \A x \in DOMAIN examples :
        /\ OrderExercisesOf(x) # {} <=> \E l \in Languages : <<l, x>> \in example_translations
        /\ \A e \in OrderExercisesOf(x) : e.translation_language # NULL

\* C7 witness: an example was inserted (its SPEAK_SENTENCE exercise exists), has
\* no translation and no ORDER_SENTENCE exercise.
C7_Witness ==
    \E x \in DOMAIN examples :
        /\ \A l \in Languages : <<l, x>> \notin example_translations
        /\ OrderExercisesOf(x) = {}
        /\ \E e \in BagToSet(exercises) : e.type = SPEAK_SENTENCE /\ e.term_example_id = x

\* The ORDER_SENTENCE exercise of example x translated to language l.
OrderExercise(l, x) ==
    Exercise([language |-> examples[x].language, term_example_id |-> x,
              translation_language |-> l, type |-> ORDER_SENTENCE])

\* C8: there is one ORDER_SENTENCE exercise per translated (example, language),
\* with the example's language and the translation's language, and no other
\* ORDER_SENTENCE exercise of the example.
C8_OneOrderExercisePerTranslation ==
    \A x \in DOMAIN examples :
        /\ \A l \in Languages :
              <<l, x>> \in example_translations
                  => CopiesIn(OrderExercise(l, x), exercises) = 1
        /\ OrderExercisesOf(x)
              = {OrderExercise(l, x) : l \in {k \in Languages : <<k, x>> \in example_translations}}

\* C8 witness: an example translated to its own and to another language has two
\* ORDER_SENTENCE exercises.
C8_Witness ==
    \E x \in DOMAIN examples :
        /\ \A l \in Languages : <<l, x>> \in example_translations
        /\ Cardinality(OrderExercisesOf(x)) = Cardinality(Languages)
        /\ \E e \in OrderExercisesOf(x) : e.translation_language # e.language

\* The SPEAK_TERM exercise of term t.
SpeakTermExercise(t) ==
    Exercise([term |-> t[1], origin_language |-> t[2], language |-> t[2],
              type |-> SPEAK_TERM])

\* C9: every Term row has its SPEAK_TERM exercise (same term and
\* origin_language, language = origin_language).
C9_EveryTermHasSpeakExercise ==
    \A t \in terms : BagIn(SpeakTermExercise(t), exercises)

\* C9 witness: every term of the universe is stored, each with its SPEAK_TERM
\* exercise, after other writes on them.
C9_Witness ==
    /\ terms = TermUniverse
    /\ \A t \in terms : CopiesIn(SpeakTermExercise(t), exercises) = 1
    /\ Len(lexicals) > 0

\* C10: every TermExample row has its SPEAK_SENTENCE exercise (term_example_id
\* = the example's id, language = the example's language).
C10_EveryExampleHasSpeakExercise ==
    \A x \in DOMAIN examples :
        BagIn(Exercise([term_example_id |-> x, type |-> SPEAK_SENTENCE,
                        language |-> examples[x].language]), exercises)

\* C10 witness: a translated example with a linked pronunciation still has one
\* SPEAK_SENTENCE exercise.
C10_Witness ==
    \E x \in DOMAIN examples :
        /\ CopiesIn(Exercise([term_example_id |-> x, type |-> SPEAK_SENTENCE,
                              language |-> examples[x].language]), exercises) = 1
        /\ \E l \in Languages : <<l, x>> \in example_translations
        /\ PronunciationsOfExample(x) # {}

\* C11: a step that inserts the link of a pronunciation whose audio_file is null
\* leaves the Exercise table as it was, so no LISTEN_TERM or LISTEN_SENTENCE
\* exercise of that pronunciation exists after it.
C11_LinkInsertWithoutAudioKeepsExercises ==
    [][\A p \in DOMAIN pronunciations :
          (/\ p \notin DOMAIN pronunciation_links
           /\ p \in DOMAIN pronunciation_links'
           /\ pronunciations[p].audio_file = NULL)
          => /\ exercises' = exercises
             /\ ListenExercisesOf(exercises', p) = {}]_vars

\* C11 witness: a pronunciation with null audio_file is linked to an example and
\* no exercise carries its id, while the example's own exercise is stored.
C11_Witness ==
    \E p \in DOMAIN pronunciation_links :
        /\ pronunciations[p].audio_file = NULL
        /\ pronunciation_links[p].term_example_id # NULL_ID
        /\ {e \in BagToSet(exercises) : e.pronunciation_id = p} = {}
        /\ \E e \in BagToSet(exercises) :
              e.term_example_id = pronunciation_links[p].term_example_id

(* -------------------- link validators of term/schema.py ---------------- *)
\* Largest id a link request names.
MaxLinkId == 2

\* Values of the optional fields of a link request: None, or a value the
\* field's type admits (term is any str, the empty one included).
TermValues == {NULL, EMPTY, "casa"}
LanguageValues == {NULL} \cup Languages
LinkIds == {NULL_ID} \cup (1..MaxLinkId)

PronunciationLinkSchema == "PronunciationLinkSchema"
TermExampleLinkSchema == "TermExampleLinkSchema"

PronunciationLinkSchema_link_fields ==
    {"term", "origin_language", "term_example_id", "term_lexical_id"}

TermExampleLinkSchema_link_fields ==
    {"term", "origin_language", "term_definition_id", "term_lexical_id"}

\* Outcomes of validation: the model is returned, or a ValueError (422) is raised.
ACCEPTED == "accepted"
AT_LEAST_ONE == "you need to provide at least one object to link."
TERM_AND_LANGUAGE == "you need to provide term and origin_language attributes."
TWO_OBJECTS == "you cannot reference two objects at once."

\* `getattr(self, field, None) is not None`.
is_not_None(r, field) ==
    IF field \in {"term", "origin_language"} THEN r[field] # NULL ELSE r[field] # NULL_ID

PronunciationLinkSchema_link_validation_term_with_id(r) ==
    LET link_attributes == {field \in PronunciationLinkSchema_link_fields : is_not_None(r, field)}
        link_count == Cardinality(link_attributes)
    IN IF link_count = 0 THEN AT_LEAST_ONE
       ELSE IF "term" \in link_attributes \/ "origin_language" \in link_attributes
       THEN IF ~(Truthy(r.term) /\ Truthy(r.origin_language)) THEN TERM_AND_LANGUAGE
            ELSE ACCEPTED
       ELSE IF link_count > 1 THEN TWO_OBJECTS
       ELSE ACCEPTED

\* PronunciationLinkSchema.link_validation; link_attributes.get(f) is falsy when
\* f is absent (None) and when it is the empty string.
PronunciationLinkSchema_link_validation(r) ==
    LET link_attributes == {field \in PronunciationLinkSchema_link_fields : is_not_None(r, field)}
        link_count == Cardinality(link_attributes)
    IN IF link_count = 0 THEN AT_LEAST_ONE
       ELSE IF "term" \in link_attributes \/ "origin_language" \in link_attributes
       THEN IF ~(Truthy(r.term) /\ Truthy(r.origin_language)) THEN TERM_AND_LANGUAGE
            ELSE IF link_count > 2 THEN TWO_OBJECTS
            ELSE ACCEPTED
       ELSE IF link_count > 1 THEN TWO_OBJECTS
       ELSE ACCEPTED

\* TermExampleLinkSchema.link_validation.
TermExampleLinkSchema_link_validation(r) ==
    LET link_attributes == {field \in TermExampleLinkSchema_link_fields : is_not_None(r, field)}
        link_count == Cardinality(link_attributes)
    IN IF link_count = 0 THEN AT_LEAST_ONE
       ELSE IF "term" \in link_attributes \/ "origin_language" \in link_attributes
       THEN IF ~(Truthy(r.term) /\ Truthy(r.origin_language)) THEN TERM_AND_LANGUAGE
            ELSE IF link_count > 2 THEN TWO_OBJECTS
            ELSE ACCEPTED
       ELSE IF link_count > 1 THEN TWO_OBJECTS
       ELSE ACCEPTED

\* Request bodies of the two schemas; a field the schema does not declare is
\* ignored by pydantic and stays None.
LinkRequests ==
    {r \in [schema : {PronunciationLinkSchema, TermExampleLinkSchema},
            term : TermValues, origin_language : LanguageValues,
            term_example_id : LinkIds, term_definition_id : LinkIds,
            term_lexical_id : LinkIds] :
        /\ r.schema = PronunciationLinkSchema => r.term_definition_id = NULL_ID
        /\ r.schema = TermExampleLinkSchema => r.term_example_id = NULL_ID}

\* A request body arrives.
receive_link_request(r) ==
    /\ response # PENDING
    /\ request' = r
    /\ response' = PENDING
    /\ UNCHANGED <<table_vars, other_vars>>

\* pydantic runs the schema's model validator on the body.
validate_link_request ==
    /\ response = PENDING
    /\ response' = IF request.schema = PronunciationLinkSchema
                   THEN PronunciationLinkSchema_link_validation(request)
                   ELSE TermExampleLinkSchema_link_validation(request)
    /\ UNCHANGED <<request, table_vars, other_vars>>

InitLinkSchema ==
    /\ terms = {}
    /\ lexicals = <<>>
    /\ definitions = <<>>
    /\ definition_translations = {}
    /\ examples = <<>>
    /\ example_translations = {}
    /\ pronunciations = <<>>
    /\ pronunciation_links = <<>>
    /\ exercises = EmptyBag
    /\ example_links = {}
    /\ translation_rows = {}
    /\ users = <<>>
    /\ cardsets = <<>>
    /\ cards = <<>>
    /\ tokens = {}
    /\ request \in LinkRequests
    /\ response = PENDING

NextLinkSchema ==
    \/ \E r \in LinkRequests : receive_link_request(r)
    \/ validate_link_request

SpecLinkSchema == InitLinkSchema /\ [][NextLinkSchema]_vars

(* -------------------- properties of the link validators ---------------- *)
\* The id fields of a request that are set.
LinkIdsSet(r) ==
    {f \in {"term_example_id", "term_definition_id", "term_lexical_id"} : r[f] # NULL_ID}

\* C12 as stated: a validated request is accepted iff it carries both term and
\* origin_language and no id, or exactly one id and neither term nor
\* origin_language; no target gives AT_LEAST_ONE, only one of term and
\* origin_language gives TERM_AND_LANGUAGE, more than one target gives TWO_OBJECTS.
C12_AcceptedIffOneTargetGiven ==
    response # PENDING =>
        LET r == request
            ids == Cardinality(LinkIdsSet(r))
            pair == r.term # NULL /\ r.origin_language # NULL
            none == r.term = NULL /\ r.origin_language = NULL
        IN /\ response = ACCEPTED <=> \/ pair /\ ids = 0
                                      \/ none /\ ids = 1
           /\ none /\ ids = 0 => response = AT_LEAST_ONE
           /\ ~pair /\ ~none => response = TERM_AND_LANGUAGE
           /\ (pair /\ ids > 0) \/ (none /\ ids > 1) => response = TWO_OBJECTS

\* C12 amended: the term of the pair has to be a non-empty string.  A validated
\* request is accepted iff it carries a non-empty term and an origin_language and
\* no id, or exactly one id and neither term nor origin_language; no field set
\* gives AT_LEAST_ONE; a term or origin_language without a non-empty term and an
\* origin_language gives TERM_AND_LANGUAGE; every other rejected request names
\* more than one target and gives TWO_OBJECTS.
C12_AcceptedIffOneNonEmptyTarget ==
    response # PENDING =>
        LET r == request
            ids == Cardinality(LinkIdsSet(r))
            pair == Truthy(r.term) /\ r.origin_language # NULL
            none == r.term = NULL /\ r.origin_language = NULL
        IN /\ response = ACCEPTED <=> \/ pair /\ ids = 0
                                      \/ none /\ ids = 1
           /\ none /\ ids = 0 => response = AT_LEAST_ONE
           /\ ~pair /\ ~none => response = TERM_AND_LANGUAGE
           /\ (pair /\ ids > 0) \/ (none /\ ids > 1) => response = TWO_OBJECTS

\* An empty term sent with an origin_language and no id has been rejected.
C12_Witness ==
    /\ request.schema \in {PronunciationLinkSchema, TermExampleLinkSchema}
    /\ request.term = EMPTY
    /\ request.origin_language # NULL
    /\ LinkIdsSet(request) = {}
    /\ response = TERM_AND_LANGUAGE

(* ------------- ExampleHighlightValidator of term/schema.py ------------- *)
\* Longest example text, and most elements of a highlight list.
MaxText == 3
MaxHighlights == 2

TermExampleSchema == "TermExampleSchema"
TermExampleTranslationSchema == "TermExampleTranslationSchema"

\* Texts of 0..MaxText characters; only the length of a text is read.
Texts == {[i \in 1..n |-> "a"] : n \in 0..MaxText}

\* Elements of a highlight list (list[int]): every pair over the positions
\* -1..MaxText, and one element of one number and one of three.
HighlightPositions == (0 - 1)..MaxText
HighlightElements == [1..2 -> HighlightPositions] \cup {<<0>>, <<0, 0, 0>>}
HighlightLists == UNION {[1..n -> HighlightElements] : n \in 0..MaxHighlights}

\* ValueErrors of validate_highlight (422), and the AttributeError of a failed
\* getattr, which pydantic does not turn into a validation error.
NOT_PAIRS == "highlight must consist of pairs of numbers representing the start and end positions."
TOO_GREAT == "highlight cannot be greater than the length of the example."
BELOW_ZERO == "both highlight values must be greater than or equal to 0."
START_AFTER_END == "highlight beginning value cannot be greater than the ending value, since it represents the start and end positions."
OVERLAP == "highlight interval must not overlap with any other intervals in highlight list."
HighlightValueErrors == {NOT_PAIRS, TOO_GREAT, BELOW_ZERO, START_AFTER_END, OVERLAP}
ATTRIBUTE_ERROR == "AttributeError"

\* The loop of validate_highlight over the rest of the list, intervals holding
\* the positions of the pairs already passed.
RECURSIVE validate_highlight_loop(_, _, _)
validate_highlight_loop(example, highlight, intervals) ==
    IF highlight = <<>> THEN ACCEPTED
    ELSE LET value == Head(highlight) IN
         IF Len(value) # 2 THEN NOT_PAIRS
         ELSE LET v1 == value[1]
                  v2 == value[2]
                  example_len == Len(example) - 1
                  interval == v1..v2
              IN IF v1 > example_len \/ v2 > example_len THEN TOO_GREAT
                 ELSE IF v1 < 0 \/ v2 < 0 THEN BELOW_ZERO
                 ELSE IF v1 > v2 THEN START_AFTER_END
                 ELSE IF interval \cap intervals # {} THEN OVERLAP
                 ELSE validate_highlight_loop(example, Tail(highlight),
                                              intervals \cup interval)

\* ExampleHighlightValidator.validate_highlight on a TermExampleSchema (text is
\* its example) or a TermExampleTranslationSchema (text is its translation):
\* `getattr(self, 'example', None) or getattr(self, 'translation')` reads
\* translation when example is missing or empty, and TermExampleSchema has no
\* translation attribute.
validate_highlight(r) ==
    IF r.schema = TermExampleSchema /\ r.text = <<>> THEN ATTRIBUTE_ERROR
    ELSE validate_highlight_loop(r.text, r.highlight, {})

HighlightRequests ==
    [schema : {TermExampleSchema, TermExampleTranslationSchema},
     text : Texts, highlight : HighlightLists]

\* pydantic runs the model validator on the body.
validate_highlight_request ==
    /\ response = PENDING
    /\ response' = validate_highlight(request)
    /\ UNCHANGED <<request, table_vars, other_vars>>

InitHighlight ==
    /\ terms = {}
    /\ lexicals = <<>>
    /\ definitions = <<>>
    /\ definition_translations = {}
    /\ examples = <<>>
    /\ example_translations = {}
    /\ pronunciations = <<>>
    /\ pronunciation_links = <<>>
    /\ exercises = EmptyBag
    /\ example_links = {}
    /\ translation_rows = {}
    /\ users = <<>>
    /\ cardsets = <<>>
    /\ cards = <<>>
    /\ tokens = {}
    /\ request \in HighlightRequests
    /\ response = PENDING

NextHighlight == validate_highlight_request

SpecHighlight == InitHighlight /\ [][NextHighlight]_vars

(* ---------------- properties of the highlight validator ---------------- *)
\* Every element is a pair [start, end] with 0 <= start <= end <= len(text) - 1
\* and no two pairs share a position.
ValidHighlight(text, highlight) ==
    /\ \A i \in DOMAIN highlight :
          /\ Len(highlight[i]) = 2
          /\ 0 <= highlight[i][1]
          /\ highlight[i][1] <= highlight[i][2]
          /\ highlight[i][2] <= Len(text) - 1
    /\ \A i, j \in DOMAIN highlight :
          i # j => (highlight[i][1]..highlight[i][2]) \cap (highlight[j][1]..highlight[j][2]) = {}

\* C13: a validated request is accepted iff its highlight list is valid for
\* its text, and every other list is rejected with a validation error (422).
C13_AcceptedIffValidHighlight ==
    response # PENDING =>
        /\ response = ACCEPTED <=> ValidHighlight(request.text, request.highlight)
        /\ ~ValidHighlight(request.text, request.highlight)
               => response \in HighlightValueErrors

\* A TermExampleSchema body with an empty example and no highlight has been
\* validated and raised the AttributeError.
C13_Witness ==
    /\ request.schema = TermExampleSchema
    /\ request.text = <<>>
    /\ request.highlight = <<>>
    /\ response = ATTRIBUTE_ERROR

(* ------------- authentication of user/security.py, term API ------------ *)
\* Most rows stored while the term API is exercised.
MaxApiRows == 4

\* Bearer tokens: a missing or undecodable token, or a token whose sub is an
\* email.
NO_TOKEN == "no-token"
Emails == {"admin@fluentia", "ana@fluentia", "bob@fluentia"}
Tokens == {NO_TOKEN} \cup Emails

\* get_current_user: the ids `.first()` can return for the token's email, or
\* NULL_ID where credentials_exception (401) is raised.
get_current_user(us, token) ==
    IF token = NO_TOKEN THEN {NULL_ID}
    ELSE LET found == {i \in DOMAIN us : us[i].email = token}
         IN IF found = {} THEN {NULL_ID} ELSE found

get_current_admin_user_any_user(us, token) ==
    {IF u = NULL_ID THEN "401" ELSE "ok" : u \in get_current_user(us, token)}

\* get_current_admin_user: 401 from get_current_user, 403 without is_superuser.
get_current_admin_user(us, token) ==
    {IF u = NULL_ID THEN "401"
     ELSE IF ~us[u].is_superuser THEN "403"
     ELSE "ok" : u \in get_current_user(us, token)}

\* get_password_hash: the stored value is a bcrypt hash of the password; a
\* password stored as it was sent is [hashed |-> FALSE, ...].
get_password_hash(password) == [hashed |-> TRUE, text |-> password]

\* User rows present when the term API is exercised: one superuser, one not.
TermApiUsers ==
    <<[email |-> "admin@fluentia", password |-> get_password_hash("pw1"),
       is_superuser |-> TRUE],
      [email |-> "ana@fluentia", password |-> get_password_hash("pw1"),
       is_superuser |-> FALSE]>>

\* A rejected request writes nothing.
reject(status) ==
    /\ response' = status
    /\ UNCHANGED <<table_vars, other_vars>>

\* POST create_term: `valid` is whether the body passes TermSchemaBase; the
\* insert of an existing primary key raises IntegrityError (409).
api_create_term(token, valid, t) ==
    /\ request' = [endpoint |-> "create_term", token |-> token, valid |-> valid,
                   term |-> t[1], origin_language |-> t[2]]
    /\ \E auth \in get_current_admin_user(users, token) :
          IF auth # "ok" THEN reject(auth)
          ELSE IF ~valid THEN reject("422")
          ELSE IF t \in terms THEN reject("409")
          ELSE /\ Rows < MaxApiRows
               /\ create_term(t)
               /\ response' = "201"
               /\ UNCHANGED other_vars

\* PATCH update_pronunciation: get_object_or_404, then the fields are set.
api_update_pronunciation(token, valid, pronunciation_id, audio_file) ==
    /\ request' = [endpoint |-> "update_pronunciation", token |-> token,
                   valid |-> valid, pronunciation_id |-> pronunciation_id,
                   audio_file |-> audio_file]
    /\ \E auth \in get_current_admin_user(users, token) :
          IF auth # "ok" THEN reject(auth)
          ELSE IF ~valid THEN reject("422")
          ELSE IF pronunciation_id \notin DOMAIN pronunciations THEN reject("404")
          ELSE /\ update_pronunciation(pronunciation_id, audio_file)
               /\ response' = "200"
               /\ UNCHANGED other_vars

primary_key_always_free(rows, language, term_definition_id) == FALSE

\* The primary key (language, term_definition_id) of TermDefinitionTranslation:
\* an insert of a key some row holds raises IntegrityError.
primary_key_conflict(rows, language, term_definition_id) ==
    \E r \in rows : r.language = language /\ r.term_definition_id = term_definition_id

\* POST create_definition_translation: 404 when the definition is missing, 409
\* when the insert raises IntegrityError, else the row is inserted.
api_create_definition_translation(token, valid, language, term_definition_id, translation) ==
    /\ request' = [endpoint |-> "create_definition_translation", token |-> token,
                   valid |-> valid, language |-> language,
                   term_definition_id |-> term_definition_id,
                   translation |-> translation]
    /\ \E auth \in get_current_admin_user(users, token) :
          IF auth # "ok" THEN reject(auth)
          ELSE IF ~valid THEN reject("422")
          ELSE IF term_definition_id \notin DOMAIN definitions THEN reject("404")
          ELSE IF primary_key_conflict(translation_rows, language, term_definition_id)
          THEN reject("409")
          ELSE /\ Rows < MaxApiRows
               /\ definition_translations' =
                      definition_translations \cup {<<language, term_definition_id>>}
               /\ translation_rows' = translation_rows \cup
                      {[language |-> language, term_definition_id |-> term_definition_id,
                        translation |-> translation]}
               /\ exercises' = insert_mchoice_term_translation_exercise(
                                   exercises, language, term_definition_id)
               /\ response' = "201"
               /\ UNCHANGED <<terms, lexicals, definitions, examples, example_translations,
                              pronunciations, pronunciation_links, example_links,
                              users, cardsets, cards, tokens>>

\* A row written through its model (Pronunciation.create, TermDefinition.create,
\* a Term insert), outside any request.
model_create(row) ==
    /\ Rows < MaxApiRows
    /\ row
    /\ request' = NoRequest
    /\ response' = PENDING
    /\ UNCHANGED other_vars

\* Texts of a definition translation.
TranslationTexts == {"lar", "moradia"}

InitTermApi ==
    /\ terms = {}
    /\ lexicals = <<>>
    /\ definitions = <<>>
    /\ definition_translations = {}
    /\ examples = <<>>
    /\ example_translations = {}
    /\ pronunciations = <<>>
    /\ pronunciation_links = <<>>
    /\ exercises = EmptyBag
    /\ example_links = {}
    /\ translation_rows = {}
    /\ users = TermApiUsers
    /\ cardsets = <<>>
    /\ cards = <<>>
    /\ tokens = {}
    /\ request = NoRequest
    /\ response = PENDING

NextTermApi ==
    \/ \E token \in Tokens, valid \in BOOLEAN, t \in TermUniverse :
          api_create_term(token, valid, t)
    \/ \E token \in Tokens, valid \in BOOLEAN, p \in 1..MaxPronunciations,
          a \in AudioValues : api_update_pronunciation(token, valid, p, a)
    \/ \E a \in AudioValues : model_create(create_pronunciation(a))

SpecTermApi == InitTermApi /\ [][NextTermApi]_vars

NextDefinitionTranslation ==
    \/ \E token \in Tokens, valid \in BOOLEAN, l \in Languages,
          d \in 1..(MaxDefinitions + 1), tr \in TranslationTexts :
          api_create_definition_translation(token, valid, l, d, tr)
    \/ \E t \in TermUniverse : model_create(create_term(t))
    \/ \E t \in TermUniverse : model_create(create_definition(t))

SpecDefinitionTranslation == InitTermApi /\ [][NextDefinitionTranslation]_vars

(* ----------------------- properties of the term API -------------------- *)
\* The User rows a token's email selects.
UsersOfToken(token) == {i \in DOMAIN users : users[i].email = token}

\* The step handled a request of the caller as a superuser.
HandledAsSuperuser ==
    /\ UsersOfToken(request'.token) # {}
    /\ \A i \in UsersOfToken(request'.token) : users[i].is_superuser

C20_CreateExistingTermReturnsIt ==
    [][(/\ request'.endpoint = "create_term"
        /\ HandledAsSuperuser
        /\ request'.valid
        /\ <<request'.term, request'.origin_language>> \in terms)
          => response' = "200" /\ terms' = terms]_vars

\* A superuser's create_term for a stored term was answered 409.
C20_Witness ==
    /\ request.endpoint = "create_term"
    /\ request.token = "admin@fluentia"
    /\ request.valid
    /\ <<request.term, request.origin_language>> \in terms
    /\ response = "409"

(* ---------- properties of create_definition_translation ---------------- *)
\* Rows of the TermDefinitionTranslation table rs that hold the key.
TranslationsOf(rs, language, term_definition_id) ==
    {r \in rs : r.language = language /\ r.term_definition_id = term_definition_id}

MaxLinks == 2

\* clean_text, the database function Term.get compares texts through: lower
\* case without accents, given here for the texts the model uses.
clean_text(text) ==
    CASE text \in {"Casa", "cása"} -> "casa"
      [] text = "CASAS" -> "casas"
      [] OTHER -> text

Term_get_exact(ts, lex, term, origin_language) ==
    IF <<term, origin_language>> \in ts THEN {<<term, origin_language>>} ELSE {}

\* Term.get: the Term rows of the language whose cleaned text is the cleaned
\* term, united with the Term rows that have a FORM lexical entry of the
\* language whose cleaned value is the cleaned term.  The result is the set of
\* rows .first() can return; the empty set stands for None.
Term_get(ts, lex, term, origin_language) ==
    LET by_text == {t \in ts : t[2] = origin_language
                                 /\ clean_text(t[1]) = clean_text(term)}
        by_form == {t \in ts : \E i \in DOMAIN lex :
                        /\ lex[i].type = FORM
                        /\ lex[i].term = t[1]
                        /\ lex[i].origin_language = t[2]
                        /\ lex[i].origin_language = origin_language
                        /\ clean_text(lex[i].value) = clean_text(term)}
    IN by_text \cup by_form

\* Keyword arguments of TermExampleLink.create as the example endpoints pass
\* them: one link target (a field left out is NULL), the example, and the
\* translation_language when the link belongs to a translation.
LinkData ==
    {d \in [term : {NULL, "casa"}, origin_language : {NULL, "pt-br"},
            term_definition_id : {NULL_ID} \cup (1..MaxDefinitions),
            term_lexical_id : {NULL_ID} \cup (1..MaxDefinitions),
            term_example_id : 1..MaxExamples,
            translation_language : {NULL} \cup Languages] :
        \/ /\ d.term # NULL /\ d.origin_language # NULL
           /\ d.term_definition_id = NULL_ID /\ d.term_lexical_id = NULL_ID
        \/ /\ d.term = NULL /\ d.origin_language = NULL
           /\ (d.term_definition_id = NULL_ID) # (d.term_lexical_id = NULL_ID)}

\* The UniqueConstraints of TermExampleLink.__table_args__.
TermExampleLink_UniqueConstraints ==
    {{"term", "origin_language", "term_example_id"},
     {"term_definition_id", "term_example_id"},
     {"term_lexical_id", "term_example_id"},
     {"term", "origin_language", "term_example_id", "translation_language"},
     {"term_definition_id", "term_example_id", "translation_language"},
     {"term_lexical_id", "term_example_id", "translation_language"}}

\* A column of a link row holds SQL NULL.
IsNull(r, column) ==
    IF column \in {"term", "origin_language", "translation_language"}
    THEN r[column] = NULL
    ELSE r[column] = NULL_ID

\* The insert of row d violates a unique constraint: some stored row equals d on
\* every column of the constraint, none of them NULL (NULLs never conflict).
unique_violation(links, d) ==
    \E columns \in TermExampleLink_UniqueConstraints : \E r \in links :
        \A c \in columns : ~IsNull(d, c) /\ r[c] = d[c]

\* TermExampleLink.create: the lookups (404), then the insert, whose
\* IntegrityError (a unique constraint, or the foreign key to the example) is
\* answered 409.
TermExampleLink_create(d) ==
    /\ request' = [schema |-> "TermExampleLink", endpoint |-> "TermExampleLink.create",
                   data |-> d]
    /\ IF /\ d.translation_language # NULL
          /\ <<d.translation_language, d.term_example_id>> \notin example_translations
       THEN reject("404")
       ELSE IF d.term # NULL /\ Term_get(terms, lexicals, d.term, d.origin_language) = {}
       THEN reject("404")
       ELSE IF /\ d.term = NULL
               /\ d.term_definition_id # NULL_ID
               /\ d.term_definition_id \notin DOMAIN definitions
       THEN reject("404")
       ELSE IF /\ d.term = NULL
               /\ d.term_definition_id = NULL_ID
               /\ d.term_lexical_id \notin DOMAIN lexicals
       THEN reject("404")
       ELSE \E db_term \in IF d.term # NULL
                             THEN Term_get(terms, lexicals, d.term, d.origin_language)
                             ELSE {<<NULL, NULL>>} :
            LET data == IF d.term # NULL THEN [d EXCEPT !.term = db_term[1]] ELSE d
            IN IF \/ unique_violation(example_links, data)
                  \/ d.term_example_id \notin DOMAIN examples
               THEN reject("409")
               ELSE /\ Cardinality(example_links) < MaxLinks
                    /\ example_links' = example_links \cup {data}
                    /\ response' = "created"
                    /\ UNCHANGED <<table_vars, translation_rows, users, cardsets, cards, tokens>>

NextExampleLink ==
    \/ \E d \in LinkData : TermExampleLink_create(d)
    \/ \E t \in TermUniverse : model_create(create_term(t))
    \/ \E t \in TermUniverse : model_create(create_definition(t))
    \/ \E t \in TermUniverse : model_create(create_lexical(t, SYNONYM))
    \/ \E l \in Languages : model_create(create_example(l))
    \/ \E l \in Languages, e \in 1..MaxExamples :
          model_create(create_example_translation(l, e))

SpecExampleLink == InitTermApi /\ [][NextExampleLink]_vars

(* -------------------- properties of TermExampleLink -------------------- *)
\* Rows r and d name the same link target, example and translation_language.
SameLink(r, d) ==
    /\ r.term = d.term
    /\ r.origin_language = d.origin_language
    /\ r.term_definition_id = d.term_definition_id
    /\ r.term_lexical_id = d.term_lexical_id
    /\ r.term_example_id = d.term_example_id
    /\ r.translation_language = d.translation_language

\* The target, the example and the translation of link data d are stored.
LinkReferentsExist(d) ==
    /\ d.term_example_id \in DOMAIN examples
    /\ d.translation_language # NULL
          => <<d.translation_language, d.term_example_id>> \in example_translations
    /\ d.term # NULL => <<d.term, d.origin_language>> \in terms
    /\ d.term_definition_id # NULL_ID => d.term_definition_id \in DOMAIN definitions
    /\ d.term_lexical_id # NULL_ID => d.term_lexical_id \in DOMAIN lexicals

\* C15: a step that calls TermExampleLink.create with a link whose target,
\* example and translation_language equal those of a stored link answers 409
\* and adds no row; with a link that differs from every stored link in one of
\* them (its referents being stored) it adds the row.
C15_LinkUniquePerTargetExampleLanguage ==
    [][request'.endpoint = "TermExampleLink.create" =>
          LET d == request'.data IN
          /\ (\E r \in example_links : SameLink(r, d))
                => response' = "409" /\ example_links' = example_links
          /\ (LinkReferentsExist(d) /\ \A r \in example_links : ~SameLink(r, d))
                => response' = "created" /\ example_links' = example_links \cup {d}]_vars

\* A link of a translation was answered 409 although its referents are stored
\* and no stored link has its target, example and translation_language.
C15_Witness ==
    /\ request.endpoint = "TermExampleLink.create"
    /\ response = "409"
    /\ request.data.translation_language # NULL
    /\ LinkReferentsExist(request.data)
    /\ \A r \in example_links : ~SameLink(r, request.data)

(* --------------------------- user/api.py -------------------------------- *)
\* Most User rows stored.
MaxUsers == 2

Passwords == {"pw1", "pw2"}

\* POST create_user: 409 when a row has the email, else the row is inserted
\* with the hashed password (username and native_language are not modelled).
create_user(email, password) ==
    /\ request' = [schema |-> "UserSchema", endpoint |-> "create_user",
                   token |-> NO_TOKEN, email |-> email]
    /\ IF \E i \in DOMAIN users : users[i].email = email THEN reject("409")
       ELSE /\ Len(users) < MaxUsers
            /\ users' = Append(users, [email |-> email,
                                       password |-> get_password_hash(password),
                                       is_superuser |-> FALSE])
            /\ response' = "201"
            /\ UNCHANGED <<table_vars, example_links, translation_rows, cardsets, cards, tokens>>

credentials_always_match(user_id, current_user) == TRUE

\* `user_id != current_user.id` of update_user, negated.
credentials_match(user_id, current_user) == user_id = current_user

\* PATCH update_user: 401 from get_current_user or when the path's user_id is
\* not the current user's id; else every field of the body that is not None is
\* set on the current user's row as it was sent.
update_user(token, user_id, email, password) ==
    /\ request' = [schema |-> "UserSchemaUpdate", endpoint |-> "update_user",
                   token |-> token, user_id |-> user_id]
    /\ \E current_user \in get_current_user(users, token) :
          IF current_user = NULL_ID THEN reject("401")
          ELSE IF ~credentials_match(user_id, current_user) THEN reject("401")
          ELSE /\ users' = [users EXCEPT
                      ![current_user].email =
                          IF email # NULL THEN email ELSE @,
                      ![current_user].password =
                          IF password # NULL THEN [hashed |-> FALSE, text |-> password]
                          ELSE @]
               /\ response' = "200"
               /\ UNCHANGED <<table_vars, example_links, translation_rows, cardsets, cards, tokens>>

InitUser ==
    /\ terms = {}
    /\ lexicals = <<>>
    /\ definitions = <<>>
    /\ definition_translations = {}
    /\ examples = <<>>
    /\ example_translations = {}
    /\ pronunciations = <<>>
    /\ pronunciation_links = <<>>
    /\ exercises = EmptyBag
    /\ example_links = {}
    /\ translation_rows = {}
    /\ users = <<>>
    /\ cardsets = <<>>
    /\ cards = <<>>
    /\ tokens = {}
    /\ request = NoRequest
    /\ response = PENDING

NextUser ==
    \/ \E email \in Emails : create_user(email, "pw1")
    \/ \E token \in Tokens, user_id \in 1..(MaxUsers + 1),
          email \in {NULL} \cup Emails, password \in {NULL} \cup Passwords :
          update_user(token, user_id, email, password)

SpecUser == InitUser /\ [][NextUser]_vars

(* ----------------------- properties of the user API -------------------- *)
\* C18: a step that handles create_user for an email some row holds answers 409
\* and leaves the User table as it was, and after every step no two User rows
\* hold the same email.
C18_EmailsUnique ==
    [][/\ (/\ request'.endpoint = "create_user"
           /\ \E i \in DOMAIN users : users[i].email = request'.email)
             => response' = "409" /\ users' = users
       /\ \A i, j \in DOMAIN users' : users'[i].email = users'[j].email => i = j]_vars

\* Two User rows hold the same email after an update_user answered 200.
C18_Witness ==
    /\ request.endpoint = "update_user"
    /\ response = "200"
    /\ \E i, j \in DOMAIN users : i # j /\ users[i].email = users[j].email

\* C19: a step that handles update_user changes at most the row whose id is the
\* path's user_id, and only if the token resolves to that row; when the token
\* resolves to no row with that id the step answers 401 and leaves the User
\* table as it was.
C19_UpdateOnlyOwnRow ==
    [][request'.endpoint = "update_user" =>
          /\ users' # users =>
                /\ request'.user_id \in get_current_user(users, request'.token)
                /\ response' = "200"
                /\ DOMAIN users' = DOMAIN users
                /\ \A i \in DOMAIN users : i # request'.user_id => users'[i] = users[i]
          /\ request'.user_id \notin get_current_user(users, request'.token)
                => response' = "401" /\ users' = users]_vars

\* An authenticated user's update_user for another stored user was answered 401.
C19_Witness ==
    /\ request.endpoint = "update_user"
    /\ response = "401"
    /\ request.user_id \in DOMAIN users
    /\ get_current_user(users, request.token) # {NULL_ID}
    /\ request.user_id \notin get_current_user(users, request.token)

(* --------------------------- card/api.py -------------------------------- *)
\* Most CardSet rows and Card rows ever inserted.
MaxCardSets == 1
MaxCards == 1

\* A deleted row: its id is not used again.
DELETED == [deleted |-> TRUE]

\* The response of a card endpoint: its status and the ids of the rows in its
\* body.
respond(status, body) == response' = [status |-> status, body |-> body]

\* An HTTPException, or an exception no handler catches (500): nothing is
\* written.
card_reject(status) ==
    /\ respond(status, {})
    /\ UNCHANGED <<table_vars, other_vars>>

\* get_object_or_404(CardSet, session, id=..., user_id=...) finds a row.
CardSet_found(cs, id, user_id) ==
    id \in DOMAIN cs /\ cs[id] # DELETED /\ cs[id].user_id = user_id

Card_found_any_user(cs, cds, id, user_id) ==
    id \in DOMAIN cds /\ cds[id] # DELETED

\* Card.get_or_404 finds a row: the card joined to its cardset, filtered by the
\* cardset's user_id.
Card_found(cs, cds, id, user_id) ==
    /\ id \in DOMAIN cds
    /\ cds[id] # DELETED
    /\ cs[cds[id].cardset_id].user_id = user_id

\* The request a card endpoint received: its endpoint, its token and the id it
\* names.
card_request(endpoint, token, id) ==
    request' = [schema |-> "card", endpoint |-> endpoint, token |-> token, id |-> id]

create_cardset(token, name) ==
    /\ card_request("create_cardset", token, NULL_ID)
    /\ \E user_id \in get_current_user(users, token) :
          IF user_id = NULL_ID THEN card_reject("401")
          ELSE
            /\ Len(cardsets) < MaxCardSets
            /\ cardsets' = Append(cardsets, [user_id |-> user_id, name |-> name])
            /\ respond("201", {Len(cardsets) + 1})
            /\ UNCHANGED <<table_vars, example_links, translation_rows, users, cards, tokens>>

get_cardset(token, cardset_id) ==
    /\ card_request("get_cardset", token, cardset_id)
    /\ \E user_id \in get_current_user(users, token) :
          IF user_id = NULL_ID THEN card_reject("401")
          ELSE
            IF ~CardSet_found(cardsets, cardset_id, user_id) THEN card_reject("404")
            ELSE /\ respond("200", {cardset_id})
                 /\ UNCHANGED <<table_vars, other_vars>>

list_cardset(token) ==
    /\ card_request("list_cardset", token, NULL_ID)
    /\ \E user_id \in get_current_user(users, token) :
          IF user_id = NULL_ID THEN card_reject("401")
          ELSE
            /\ respond("200", {i \in DOMAIN cardsets :
                                  CardSet_found(cardsets, i, user_id)})
            /\ UNCHANGED <<table_vars, other_vars>>

\* model_dump(exclude_none=True): a name left out keeps the stored one.
update_cardset(token, cardset_id, name) ==
    /\ card_request("update_cardset", token, cardset_id)
    /\ \E user_id \in get_current_user(users, token) :
          IF user_id = NULL_ID THEN card_reject("401")
          ELSE
            IF ~CardSet_found(cardsets, cardset_id, user_id) THEN card_reject("404")
            ELSE /\ cardsets' = [cardsets EXCEPT ![cardset_id].name =
                                     IF name # NULL THEN name ELSE @]
                 /\ respond("200", {cardset_id})
                 /\ UNCHANGED <<table_vars, example_links, translation_rows, users, cards, tokens>>

\* The DELETE of a cardset that cards reference violates Card.cardset_id's
\* foreign key; the IntegrityError is not caught.
delete_cardset(token, cardset_id) ==
    /\ card_request("delete_cardset", token, cardset_id)
    /\ \E user_id \in get_current_user(users, token) :
          IF user_id = NULL_ID THEN card_reject("401")
          ELSE
            IF ~CardSet_found(cardsets, cardset_id, user_id) THEN card_reject("404")
            ELSE IF \E c \in DOMAIN cards :
                        cards[c] # DELETED /\ cards[c].cardset_id = cardset_id
            THEN card_reject("500")
            ELSE /\ cardsets' = [cardsets EXCEPT ![cardset_id] = DELETED]
                 /\ respond("204", {})
                 /\ UNCHANGED <<table_vars, example_links, translation_rows, users, cards, tokens>>

\* create_card: the cardset lookup, then Card.create with its Term.get_or_404.
create_card(token, cardset_id, t, note) ==
    /\ card_request("create_card", token, cardset_id)
    /\ \E user_id \in get_current_user(users, token) :
          IF user_id = NULL_ID THEN card_reject("401")
          ELSE
            IF ~CardSet_found(cardsets, cardset_id, user_id) THEN card_reject("404")
            ELSE IF t \notin terms THEN card_reject("404")
            ELSE /\ Len(cards) < MaxCards
                 /\ cards' = Append(cards, [cardset_id |-> cardset_id, term |-> t[1],
                                            origin_language |-> t[2], note |-> note])
                 /\ respond("201", {Len(cards) + 1})
                 /\ UNCHANGED <<table_vars, example_links, translation_rows, users,
                                cardsets, tokens>>

get_card(token, card_id) ==
    /\ card_request("get_card", token, card_id)
    /\ \E user_id \in get_current_user(users, token) :
          IF user_id = NULL_ID THEN card_reject("401")
          ELSE
            IF ~Card_found(cardsets, cards, card_id, user_id) THEN card_reject("404")
            ELSE /\ respond("200", {card_id})
                 /\ UNCHANGED <<table_vars, other_vars>>

list_cards(token, cardset_id) ==
    /\ card_request("list_cards", token, cardset_id)
    /\ \E user_id \in get_current_user(users, token) :
          IF user_id = NULL_ID THEN card_reject("401")
          ELSE
            IF ~CardSet_found(cardsets, cardset_id, user_id) THEN card_reject("404")
            ELSE /\ respond("200", {c \in DOMAIN cards :
                                       cards[c] # DELETED /\ cards[c].cardset_id = cardset_id})
                 /\ UNCHANGED <<table_vars, other_vars>>

\* model_dump() without exclude_none: the note is set as sent, None included.
update_card(token, card_id, note) ==
    /\ card_request("update_card", token, card_id)
    /\ \E user_id \in get_current_user(users, token) :
          IF user_id = NULL_ID THEN card_reject("401")
          ELSE
            IF ~Card_found(cardsets, cards, card_id, user_id) THEN card_reject("404")
            ELSE /\ cards' = [cards EXCEPT ![card_id].note = note]
                 /\ respond("200", {card_id})
                 /\ UNCHANGED <<table_vars, example_links, translation_rows, users,
                                cardsets, tokens>>

delete_card(token, card_id) ==
    /\ card_request("delete_card", token, card_id)
    /\ \E user_id \in get_current_user(users, token) :
          IF user_id = NULL_ID THEN card_reject("401")
          ELSE
            IF ~Card_found(cardsets, cards, card_id, user_id) THEN card_reject("404")
            ELSE /\ cards' = [cards EXCEPT ![card_id] = DELETED]
                 /\ respond("204", {})
                 /\ UNCHANGED <<table_vars, example_links, translation_rows, users,
                                cardsets, tokens>>

\* Tokens, names and notes the card endpoints are called with.
CardTokens == {NO_TOKEN, "admin@fluentia", "ana@fluentia"}
CardNames == {"verbs", "nouns"}
CardNotes == {NULL, "note"}

InitCard ==
    /\ terms = {<<"casa", "pt-br">>}
    /\ lexicals = <<>>
    /\ definitions = <<>>
    /\ definition_translations = {}
    /\ examples = <<>>
    /\ example_translations = {}
    /\ pronunciations = <<>>
    /\ pronunciation_links = <<>>
    /\ exercises = insert_speak_term_exercise(EmptyBag, <<"casa", "pt-br">>)
    /\ example_links = {}
    /\ translation_rows = {}
    /\ users = TermApiUsers
    /\ cardsets = <<>>
    /\ cards = <<>>
    /\ tokens = {}
    /\ request = NoRequest
    /\ response = [status |-> PENDING, body |-> {}]

NextCard ==
    \/ \E token \in CardTokens, name \in CardNames : create_cardset(token, name)
    \/ \E token \in CardTokens, id \in 1..MaxCardSets : get_cardset(token, id)
    \/ \E token \in CardTokens : list_cardset(token)
    \/ \E token \in CardTokens, id \in 1..MaxCardSets, name \in {NULL} \cup CardNames :
          update_cardset(token, id, name)
    \/ \E token \in CardTokens, id \in 1..MaxCardSets : delete_cardset(token, id)
    \/ \E token \in CardTokens, id \in 1..MaxCardSets, t \in TermUniverse,
          note \in CardNotes : create_card(token, id, t, note)
    \/ \E token \in CardTokens, id \in 1..MaxCards : get_card(token, id)
    \/ \E token \in CardTokens, id \in 1..MaxCardSets : list_cards(token, id)
    \/ \E token \in CardTokens, id \in 1..MaxCards, note \in CardNotes :
          update_card(token, id, note)
    \/ \E token \in CardTokens, id \in 1..MaxCards : delete_card(token, id)

SpecCard == InitCard /\ [][NextCard]_vars

\* The endpoints that name a cardset by id, and those that name a card by id.
CardSetIdEndpoints ==
    {"get_cardset", "update_cardset", "delete_cardset", "create_card", "list_cards"}
CardIdEndpoints == {"get_card", "update_card", "delete_card"}

\* The stored cardset `id` belongs to a user other than user_id.
OthersCardSet(id, user_id) ==
    id \in DOMAIN cardsets /\ cardsets[id] # DELETED /\ cardsets[id].user_id # user_id

\* The stored card `id` is in a cardset of a user other than user_id.
OthersCard(id, user_id) ==
    /\ id \in DOMAIN cards
    /\ cards[id] # DELETED
    /\ OthersCardSet(cards[id].cardset_id, user_id)

\* C17: a get, update, delete, list_cards or create_card request that names a
\* cardset of another user, and a get, update or delete request that names a
\* card in a cardset of another user, is answered 404 and leaves the cardset
\* and card rows as they were; list_cardset returns only cardsets of the
\* caller.
C17_OnlyOwnCardSetsAndCards ==
    [][request'.schema = "card" =>
        \A user_id \in get_current_user(users, request'.token) \ {NULL_ID} :
            /\ (request'.endpoint \in CardSetIdEndpoints
                    /\ OthersCardSet(request'.id, user_id))
               => (response'.status = "404" /\ cardsets' = cardsets /\ cards' = cards)
            /\ (request'.endpoint \in CardIdEndpoints
                    /\ OthersCard(request'.id, user_id))
               => (response'.status = "404" /\ cardsets' = cardsets /\ cards' = cards)
            /\ request'.endpoint = "list_cardset"
               => /\ response'.status = "200"
                  /\ \A id \in response'.body :
                        cardsets[id] # DELETED /\ cardsets[id].user_id = user_id]_vars

\* ana asked to delete a card in a cardset of admin and was answered 404.
C17_Witness ==
    /\ request.schema = "card"
    /\ request.endpoint = "delete_card"
    /\ request.token = "ana@fluentia"
    /\ response.status = "404"
    /\ \E user_id \in get_current_user(users, request.token) \ {NULL_ID} :
          OthersCard(request.id, user_id)

(* ------------------- order of inserts, audio, lexical types ------------ *)
\* C24: every translated definition whose term has at least 3 antonyms has the
\* MCHOICE_TERM_TRANSLATION exercise of (definition, language), whatever the
\* order in which the antonyms and the translation were inserted.
C24_TranslationExerciseWhateverTheOrder ==
    \A tr \in definition_translations :
        antonym_count(lexicals, definitions[tr[2]].term,
                      definitions[tr[2]].origin_language) >= 3
        => BagIn(MChoiceTermTranslationExercise(tr[1], tr[2]), exercises)

\* C24 witness: a definition was translated before its term had 3 antonyms; the
\* term has 3 antonyms now and the exercise of the translation is missing.
C24_Witness ==
    \E tr \in definition_translations :
        /\ antonym_count(lexicals, definitions[tr[2]].term,
                         definitions[tr[2]].origin_language) >= 3
        /\ ~BagIn(MChoiceTermTranslationExercise(tr[1], tr[2]), exercises)

\* C27: no LISTEN_TERM or LISTEN_SENTENCE exercise references a pronunciation
\* whose audio_file is null or the empty string.
C27_NoListenExerciseWithoutAudio ==
    \A e \in BagToSet(exercises) :
        e.type \in {LISTEN_TERM, LISTEN_SENTENCE}
        => Truthy(pronunciations[e.pronunciation_id].audio_file)

\* C27 witness: a linked pronunciation whose audio_file is the empty string has
\* a listen exercise.
C27_Witness ==
    \E p \in DOMAIN pronunciation_links :
        /\ pronunciations[p].audio_file = EMPTY
        /\ ListenExercisesOf(exercises, p) # {}

\* Ids of the entries of type antonym that lex holds for (term, origin_language).
AntonymsOf(lex, term, origin_language) ==
    {i \in DOMAIN lex :
        /\ lex[i].type = ANTONYM
        /\ lex[i].term = term
        /\ lex[i].origin_language = origin_language}

\* C30: a step that inserts a TermLexical whose type is not antonym leaves the
\* Exercise table as it was, and a step that adds a MCHOICE_TERM or
\* MCHOICE_TERM_TRANSLATION exercise does so for a term that has at least 3
\* entries of type antonym.
C30_OnlyAntonymsCount ==
    [][/\ (Len(lexicals') = Len(lexicals) + 1
              /\ lexicals'[Len(lexicals')].type # ANTONYM)
          => exercises' = exercises
       /\ \A e \in BagToSet(exercises') \ BagToSet(exercises) :
             /\ e.type = MCHOICE_TERM
                => Cardinality(AntonymsOf(lexicals', e.term, e.origin_language)) >= 3
             /\ e.type = MCHOICE_TERM_TRANSLATION
                => Cardinality(AntonymsOf(lexicals',
                       definitions'[e.term_definition_id].term,
                       definitions'[e.term_definition_id].origin_language)) >= 3]_vars

\* C30 witness: a term has 2 antonyms and 2 entries of another type and no
\* MCHOICE_TERM exercise.
C30_Witness ==
    \E t \in terms :
        /\ Cardinality(AntonymsOf(lexicals, t[1], t[2])) = 2
        /\ Cardinality({i \in DOMAIN lexicals :
                /\ lexicals[i].term = t[1]
                /\ lexicals[i].origin_language = t[2]
                /\ lexicals[i].type # ANTONYM}) = 2
        /\ ~BagIn(MChoiceTermExercise(t), exercises)

(* ----------------------- create_pronunciation -------------------------- *)
\* model_link_dump() of a valid PronunciationSchema: the one target it names.
PronunciationLinkInputs ==
    {[term |-> t[1], origin_language |-> t[2],
      term_example_id |-> NULL_ID, term_lexical_id |-> NULL_ID] : t \in TermUniverse}
    \cup
    {[term |-> NULL, origin_language |-> NULL,
      term_example_id |-> e, term_lexical_id |-> NULL_ID] : e \in 1..(MaxExamples + 1)}
    \cup
    {[term |-> NULL, origin_language |-> NULL,
      term_example_id |-> NULL_ID, term_lexical_id |-> l] : l \in 1..(MaxExamples + 1)}

link_target_always_found(link_values) == TRUE

\* The get_object_or_404 of create_pronunciation finds the link's target.
link_target_found(link_values) ==
    IF link_values.term # NULL
    THEN <<link_values.term, link_values.origin_language>> \in terms
    ELSE IF link_values.term_example_id # NULL_ID
    THEN link_values.term_example_id \in DOMAIN examples
    ELSE link_values.term_lexical_id \in DOMAIN lexicals

\* POST create_pronunciation: the target lookup, then the Pronunciation row and
\* its PronunciationLink row are committed; the after_insert hook of the link
\* reads the new Pronunciation row.
api_create_pronunciation(token, valid, audio_file, link_values) ==
    /\ request' = [endpoint |-> "create_pronunciation", token |-> token,
                   valid |-> valid, link |-> link_values]
    /\ \E auth \in get_current_admin_user(users, token) :
          IF auth # "ok" THEN reject(auth)
          ELSE IF ~valid THEN reject("422")
          ELSE IF ~link_target_found(link_values) THEN reject("404")
          ELSE /\ Rows + 1 < MaxApiRows
               /\ Len(pronunciations) < MaxPronunciations
               /\ LET id == Len(pronunciations) + 1
                      prons == Append(pronunciations, [audio_file |-> audio_file])
                      db_link == [pronunciation_id |-> id,
                                  term |-> link_values.term,
                                  origin_language |-> link_values.origin_language,
                                  term_example_id |-> link_values.term_example_id,
                                  term_lexical_id |-> link_values.term_lexical_id]
                  IN /\ pronunciations' = prons
                     /\ pronunciation_links' =
                            [q \in DOMAIN pronunciation_links \cup {id} |->
                                IF q = id THEN db_link ELSE pronunciation_links[q]]
                     /\ exercises' = insert_listen_exercise(exercises, prons, db_link)
               /\ response' = "201"
               /\ UNCHANGED <<terms, lexicals, definitions, definition_translations,
                              examples, example_translations, other_vars>>

NextPronunciation ==
    \/ \E token \in Tokens, valid \in BOOLEAN, a \in AudioValues,
          link_values \in PronunciationLinkInputs :
          api_create_pronunciation(token, valid, a, link_values)
    \/ \E t \in TermUniverse : model_create(create_term(t))
    \/ \E l \in Languages : model_create(create_example(l))
    \/ \E t \in TermUniverse : model_create(create_lexical(t, SYNONYM))

SpecPronunciation == InitTermApi /\ [][NextPronunciation]_vars

TermGetUniverse == {<<"casa", "pt-br">>, <<"Casa", "pt-br">>}
TermTexts == {"cása", "CASAS", "mesa"}
TermLanguage == "pt-br"
LexicalValues == {"casas"}

\* Rows stored by the creates and the Term inserts.
TermGetRows ==
    Cardinality(terms) + Len(lexicals) + Len(definitions) + Len(cards)
    + Cardinality(DOMAIN pronunciation_links) + Cardinality(example_links)

\* The call being made and an HTTPException it raises.
term_request(endpoint, term, origin_language) ==
    request' = [schema |-> "term", endpoint |-> endpoint, term |-> term,
                origin_language |-> origin_language]

\* TermDefinition.create: Term.get_or_404, then the row with db_term.term.
TermDefinition_create(term, origin_language) ==
    /\ term_request("TermDefinition.create", term, origin_language)
    /\ IF Term_get(terms, lexicals, term, origin_language) = {} THEN reject("404")
       ELSE \E db_term \in Term_get(terms, lexicals, term, origin_language) :
            /\ TermGetRows < MaxApiRows
            /\ Len(definitions) < MaxDefinitions
            /\ definitions' = Append(definitions,
                   [term |-> db_term[1], origin_language |-> origin_language])
            /\ response' = "created"
            /\ UNCHANGED <<terms, lexicals, definition_translations, examples,
                           example_translations, pronunciations, pronunciation_links,
                           exercises, other_vars>>

\* TermLexical.create: Term.get_or_404, then the row with db_term.term; the
\* after_insert hook runs.
TermLexical_create(term, origin_language, type, value) ==
    /\ term_request("TermLexical.create", term, origin_language)
    /\ IF Term_get(terms, lexicals, term, origin_language) = {} THEN reject("404")
       ELSE \E db_term \in Term_get(terms, lexicals, term, origin_language) :
            /\ TermGetRows < MaxApiRows
            /\ Len(lexicals) < MaxLexical
            /\ LET target == [term |-> db_term[1], origin_language |-> origin_language,
                              type |-> type, value |-> value]
                   lex == Append(lexicals, target)
               IN /\ lexicals' = lex
                  /\ exercises' = insert_mchoice_term_exercise(exercises, lex, target)
            /\ response' = "created"
            /\ UNCHANGED <<terms, definitions, definition_translations, examples,
                           example_translations, pronunciations, pronunciation_links,
                           other_vars>>

\* Card.create: Term.get_or_404, then the row with db_term.term and
\* db_term.origin_language.
Card_create(cardset_id, term, origin_language) ==
    /\ term_request("Card.create", term, origin_language)
    /\ IF Term_get(terms, lexicals, term, origin_language) = {} THEN reject("404")
       ELSE \E db_term \in Term_get(terms, lexicals, term, origin_language) :
            /\ TermGetRows < MaxApiRows
            /\ Len(cards) < MaxCards
            /\ cards' = Append(cards, [cardset_id |-> cardset_id, term |-> db_term[1],
                                       origin_language |-> db_term[2], note |-> NULL])
            /\ response' = "created"
            /\ UNCHANGED <<table_vars, example_links, translation_rows, users, cardsets, tokens>>

\* PronunciationLink.create with a term, for a stored pronunciation without a
\* link.  On 404 the session is rolled back and a DELETE of the Pronunciation is
\* issued but not committed: the row is gone or kept, as the caller's session
\* ends.
PronunciationLink_create(pronunciation_id, term, origin_language) ==
    /\ pronunciation_id \in DOMAIN pronunciations
    /\ pronunciations[pronunciation_id] # DELETED
    /\ pronunciation_id \notin DOMAIN pronunciation_links
    /\ term_request("PronunciationLink.create", term, origin_language)
    /\ IF Term_get(terms, lexicals, term, origin_language) = {}
       THEN /\ response' = "404"
            /\ pronunciations' \in
                   {pronunciations, [pronunciations EXCEPT ![pronunciation_id] = DELETED]}
            /\ UNCHANGED <<terms, lexicals, definitions, definition_translations,
                           examples, example_translations, pronunciation_links,
                           exercises, other_vars>>
       ELSE \E db_term \in Term_get(terms, lexicals, term, origin_language) :
            /\ TermGetRows < MaxApiRows
            /\ LET target == [pronunciation_id |-> pronunciation_id,
                              term |-> db_term[1], origin_language |-> origin_language,
                              term_example_id |-> NULL_ID, term_lexical_id |-> NULL_ID]
               IN /\ pronunciation_links' =
                         [q \in DOMAIN pronunciation_links \cup {pronunciation_id} |->
                             IF q = pronunciation_id THEN target
                             ELSE pronunciation_links[q]]
                  /\ exercises' = insert_listen_exercise(exercises, pronunciations, target)
            /\ response' = "created"
            /\ UNCHANGED <<terms, lexicals, definitions, definition_translations,
                           examples, example_translations, pronunciations, other_vars>>

\* The TermExampleLink.create calls that name a term.
TermLinkData ==
    {[term |-> term, origin_language |-> origin_language,
      term_definition_id |-> NULL_ID, term_lexical_id |-> NULL_ID,
      term_example_id |-> 1, translation_language |-> NULL] :
        term \in TermTexts, origin_language \in {TermLanguage}}

\* The rows present when the creates are called: a user with a cardset, a
\* pronunciation and an example.
InitTermGet ==
    /\ terms = {}
    /\ lexicals = <<>>
    /\ definitions = <<>>
    /\ definition_translations = {}
    /\ examples = <<[language |-> "pt-br"]>>
    /\ example_translations = {}
    /\ pronunciations = <<[audio_file |-> URL]>>
    /\ pronunciation_links = <<>>
    /\ exercises = insert_speak_sentence_exercise(EmptyBag, 1, "pt-br")
    /\ example_links = {}
    /\ translation_rows = {}
    /\ users = TermApiUsers
    /\ cardsets = <<[user_id |-> 2, name |-> "verbs"]>>
    /\ cards = <<>>
    /\ tokens = {}
    /\ request = NoRequest
    /\ response = PENDING

NextTermGet ==
    \/ \E t \in TermGetUniverse :
          /\ TermGetRows < MaxApiRows
          /\ model_create(create_term(t))
    \/ \E term \in TermTexts : TermDefinition_create(term, TermLanguage)
    \/ \E term \in TermTexts, type \in {FORM, SYNONYM}, value \in LexicalValues :
          TermLexical_create(term, TermLanguage, type, value)
    \/ \E term \in TermTexts : Card_create(1, term, TermLanguage)
    \/ \E term \in TermTexts : PronunciationLink_create(1, term, TermLanguage)
    \/ \E d \in TermLinkData : TermExampleLink_create(d)

SpecTermGet == InitTermGet /\ [][NextTermGet]_vars

\* The Term rows that text names in language l: by their cleaned text, or by
\* the cleaned value of one of their FORM lexical entries.
TermMatches(text, l) ==
    {t \in terms :
        /\ t[2] = l
        /\ \/ clean_text(t[1]) = clean_text(text)
           \/ \E i \in DOMAIN lexicals :
                 /\ lexicals[i].type = FORM
                 /\ <<lexicals[i].term, lexicals[i].origin_language>> = t
                 /\ clean_text(lexicals[i].value) = clean_text(text)}

\* The (term, origin_language) the step's call names.
RequestedTerm ==
    IF request'.schema = "term"
    THEN <<request'.term, request'.origin_language>>
    ELSE <<request'.data.term, request'.data.origin_language>>

\* The (term, origin_language) of the rows the step added to the tables of the
\* five creates.
CreatedRows ==
    (IF Len(definitions') > Len(definitions)
     THEN {<<definitions'[Len(definitions')].term,
             definitions'[Len(definitions')].origin_language>>} ELSE {})
    \cup (IF Len(lexicals') > Len(lexicals)
          THEN {<<lexicals'[Len(lexicals')].term,
                  lexicals'[Len(lexicals')].origin_language>>} ELSE {})
    \cup (IF Len(cards') > Len(cards)
          THEN {<<cards'[Len(cards')].term, cards'[Len(cards')].origin_language>>}
          ELSE {})
    \cup {<<pronunciation_links'[q].term, pronunciation_links'[q].origin_language>> :
             q \in DOMAIN pronunciation_links' \ DOMAIN pronunciation_links}
    \cup {<<r.term, r.origin_language>> : r \in example_links' \ example_links}

MaxPageRows == 3
MaxPage == 3

\* previous_page = None.
NO_URL == [page |-> 0, size |-> 0, params |-> <<>>]

\* set_url_params: the url carries page, size and the params that are not None.
set_url_params(params, page, size) ==
    [page |-> page, size |-> size,
     params |-> [k \in {k \in DOMAIN params : params[k] # NULL} |-> params[k]]]

\* The ids of S in ascending order: the order the rows are returned in.
RECURSIVE ordered(_)
ordered(S) ==
    IF S = {} THEN <<>>
    ELSE LET least == CHOOSE x \in S : \A y \in S : x <= y
         IN <<least>> \o ordered(S \ {least})

\* .offset(offset).limit(limit) over the matching rows.
offset_limit(rows, offset, limit) ==
    SubSeq(rows, offset + 1, IF offset + limit < Len(rows) THEN offset + limit ELSE Len(rows))

\* Page(...) as the list methods build it: count().over() is read from the
\* first returned row, and is 0 when no row is returned.
Page(rows, matching, next_page, previous_page) ==
    [items |-> rows,
     total |-> IF Len(rows) = 0 THEN 0 ELSE matching,
     next_page |-> next_page,
     previous_page |-> previous_page]

\* TermLexical.list
TermLexical_list(term, origin_language, page, size, type) ==
    LET found == Term_get(terms, lexicals, term, origin_language)
    IN \E db_term \in IF found = {} THEN {<<term, origin_language>>} ELSE found :
       LET matching == {i \in DOMAIN lexicals :
                           /\ clean_text(lexicals[i].term) = clean_text(db_term[1])
                           /\ lexicals[i].origin_language = origin_language
                           /\ type # NULL => lexicals[i].type = type}
           rows == offset_limit(ordered(matching), (page - 1) * size, size)
           params == [term |-> db_term[1], origin_language |-> origin_language,
                      type |-> type]
       IN /\ request' = [schema |-> "page", endpoint |-> "TermLexical.list",
                         term |-> term, origin_language |-> origin_language,
                         type |-> type, page |-> page, size |-> size]
          /\ response' = Page(rows, Cardinality(matching),
                              set_url_params(params, page + 1, size),
                              IF page = 1 THEN NO_URL
                              ELSE set_url_params(params, page - 1, size))
          /\ UNCHANGED <<table_vars, other_vars>>

\* TermExample.list with a term as the link attribute: the examples joined to
\* their TermExampleLink rows.
TermExample_list(term, origin_language, page, size) ==
    LET found == Term_get(terms, lexicals, term, origin_language)
    IN \E db_term \in IF found = {} THEN {<<term, origin_language>>} ELSE found :
       LET matching == {r.term_example_id : r \in
                           {r \in example_links :
                               /\ r.term_example_id \in DOMAIN examples
                               /\ r.term # NULL
                               /\ clean_text(r.term) = clean_text(db_term[1])
                               /\ r.origin_language = origin_language}}
           rows == offset_limit(ordered(matching), (page - 1) * size, size)
           params == [term |-> db_term[1], origin_language |-> origin_language,
                      type |-> NULL]
       IN /\ request' = [schema |-> "page", endpoint |-> "TermExample.list",
                         term |-> term, origin_language |-> origin_language,
                         type |-> NULL, page |-> page, size |-> size]
          /\ response' = Page(rows, Cardinality(matching),
                              set_url_params(params, page + 1, size),
                              IF page = 1 THEN NO_URL
                              ELSE set_url_params(params, page - 1, size))
          /\ UNCHANGED <<table_vars, other_vars>>

\* The tables that are listed: a Term with up to MaxPageRows lexical entries,
\* and as many examples, each linked to the Term.
InitPage ==
    /\ terms = {<<"casa", "pt-br">>}
    /\ \E n \in 0..MaxPageRows :
          /\ lexicals \in [1..n -> [term : {"casa"}, origin_language : {"pt-br"},
                                    type : {SYNONYM, ANTONYM}, value : LexicalValues]]
          /\ examples = [e \in 1..n |-> [language |-> "pt-br"]]
          /\ example_links =
                {[term |-> "casa", origin_language |-> "pt-br",
                  term_definition_id |-> NULL_ID, term_lexical_id |-> NULL_ID,
                  term_example_id |-> e, translation_language |-> NULL] : e \in 1..n}
    /\ definitions = <<>>
    /\ definition_translations = {}
    /\ example_translations = {}
    /\ pronunciations = <<>>
    /\ pronunciation_links = <<>>
    /\ exercises = EmptyBag
    /\ translation_rows = {}
    /\ users = <<>>
    /\ cardsets = <<>>
    /\ cards = <<>>
    /\ tokens = {}
    /\ request = NoRequest
    /\ response = Page(<<>>, 0, NO_URL, NO_URL)

NextPage ==
    \/ \E term \in {"casa", "cása"}, page \in 1..MaxPage, size \in 1..2,
          type \in {NULL, ANTONYM} : TermLexical_list(term, "pt-br", page, size, type)
    \/ \E term \in {"casa", "cása"}, page \in 1..MaxPage, size \in 1..2 :
          TermExample_list(term, "pt-br", page, size)

SpecPage == InitPage /\ [][NextPage]_vars

\* The rows of the listed table that match the step's request, in id order.
MatchingRows ==
    IF request'.endpoint = "TermLexical.list"
    THEN ordered({i \in DOMAIN lexicals :
                     request'.type # NULL => lexicals[i].type = request'.type})
    ELSE ordered(DOMAIN examples)

\* C23: a list step for page p and size s returns the matching rows at offsets
\* (p-1)s .. ps-1, total is the number of all matching rows (also past the last
\* page), next_page is page p+1 with the same size and filters, and
\* previous_page is null iff p = 1 and else page p-1.
C23_PageOfMatchingRows ==
    [][request'.schema = "page" =>
          LET p == request'.page
              sz == request'.size
              rows == MatchingRows
          IN /\ response'.items =
                    [i \in 1..(IF p * sz <= Len(rows) THEN sz
                               ELSE IF (p - 1) * sz < Len(rows)
                               THEN Len(rows) - (p - 1) * sz ELSE 0)
                        |-> rows[(p - 1) * sz + i]]
             /\ response'.total = Len(rows)
             /\ response'.next_page.page = p + 1
             /\ response'.next_page.size = sz
             /\ response'.next_page.params.origin_language = request'.origin_language
             /\ clean_text(response'.next_page.params.term) = clean_text(request'.term)
             /\ (request'.type # NULL)
                    => response'.next_page.params.type = request'.type
             /\ (response'.previous_page = NO_URL) <=> (p = 1)
             /\ p > 1 => /\ response'.previous_page.page = p - 1
                         /\ response'.previous_page.size = sz]_vars

\* C23 witness: page 3 of size 2 of a list with 3 matching rows was requested;
\* it is past the last page and its total is 0.
C23_Witness ==
    /\ request.schema = "page"
    /\ request.page = 3
    /\ request.size = 2
    /\ request.type = NULL
    /\ Len(lexicals) = 3
    /\ response.items = <<>>
    /\ response.total = 0

(* ---------------------- concurrent transactions ------------------------ *)
\* Requests that are handled at the same time, each in its own database
\* transaction (READ COMMITTED: a statement reads the committed rows and the
\* rows its own transaction wrote).
MaxTransactions == 2

\* The open transactions: for each, the TermLexical row it inserted and the
\* Exercise rows its hook added, none of them committed yet.
transactions(open) ==
    [schema |-> "transactions", endpoint |-> "TermLexical.create", open |-> open]

\* TermLexical.create up to the flush of its commit: the INSERT and, in the same
\* transaction, insert_mchoice_term_exercise.  The hook's count and its
\* get-or-create read the committed tables and the transaction's own row.
flush_lexical(tx, t, type) ==
    /\ tx \notin DOMAIN request.open
    /\ t \in terms
    /\ Len(lexicals) + Cardinality(DOMAIN request.open) < MaxLexical
    /\ LET target == [term |-> t[1], origin_language |-> t[2], type |-> type]
           seen == Append(lexicals, target)
           added == insert_mchoice_term_exercise(exercises, seen, target) (-) exercises
       IN request' = transactions(
              [x \in DOMAIN request.open \cup {tx} |->
                  IF x = tx THEN [target |-> target, exercises |-> added]
                  ELSE request.open[x]])
    /\ UNCHANGED <<table_vars, other_vars, response>>

\* The COMMIT of an open transaction: its rows become visible to the others.
\* Exercise has no unique constraint, so the commit does not fail.
commit_lexical(tx) ==
    /\ tx \in DOMAIN request.open
    /\ lexicals' = Append(lexicals, request.open[tx].target)
    /\ exercises' = exercises (+) request.open[tx].exercises
    /\ request' = transactions([x \in DOMAIN request.open \ {tx} |-> request.open[x]])
    /\ UNCHANGED <<terms, definitions, definition_translations, examples,
                   example_translations, pronunciations, pronunciation_links,
                   other_vars, response>>

\* A Term with its SPEAK_TERM exercise and no lexical entry; no open transaction.
InitTransactions ==
    /\ terms = {<<"casa", "pt-br">>}
    /\ lexicals = <<>>
    /\ definitions = <<>>
    /\ definition_translations = {}
    /\ examples = <<>>
    /\ example_translations = {}
    /\ pronunciations = <<>>
    /\ pronunciation_links = <<>>
    /\ exercises = insert_speak_term_exercise(EmptyBag, <<"casa", "pt-br">>)
    /\ example_links = {}
    /\ translation_rows = {}
    /\ users = <<>>
    /\ cardsets = <<>>
    /\ cards = <<>>
    /\ tokens = {}
    /\ request = transactions(<<>>)
    /\ response = PENDING

NextTransactions ==
    \/ \E tx \in 1..MaxTransactions, t \in TermUniverse, type \in {ANTONYM, SYNONYM} :
          flush_lexical(tx, t, type)
    \/ \E tx \in 1..MaxTransactions : commit_lexical(tx)

SpecTransactions == InitTransactions /\ [][NextTransactions]_vars

\* C25: once every transaction has committed, no Exercise attribute tuple is
\* stored more than once.
C25_OneExercisePerTupleAfterCommit ==
    DOMAIN request.open = {}
        => \A e \in BagToSet(exercises) : CopiesIn(e, exercises) <= 1

\* C25 witness: two transactions that each saw 3 antonyms have committed and
\* the MCHOICE_TERM exercise of the term is stored twice.
C25_Witness ==
    /\ DOMAIN request.open = {}
    /\ \E t \in terms :
          /\ Cardinality(AntonymsOf(lexicals, t[1], t[2])) = 4
          /\ CopiesIn(MChoiceTermExercise(t), exercises) = 2

\* C26: once every transaction has committed, a term with at least 3 antonyms
\* has its MCHOICE_TERM exercise.
C26_ExerciseExistsAfterCommit ==
    DOMAIN request.open = {}
        => \A t \in terms :
              Cardinality(AntonymsOf(lexicals, t[1], t[2])) >= 3
                  => BagIn(MChoiceTermExercise(t), exercises)

\* C26 witness: two transactions that each saw 2 antonyms have committed; the
\* term has 3 antonyms and no MCHOICE_TERM exercise.
C26_Witness ==
    /\ DOMAIN request.open = {}
    /\ \E t \in terms :
          /\ Cardinality(AntonymsOf(lexicals, t[1], t[2])) = 3
          /\ ~BagIn(MChoiceTermExercise(t), exercises)

(* ------------------------------- login --------------------------------- *)
\* Most bearer tokens issued.
MaxTokens == 1

\* verify_password: pwd_context.verify of the password against a bcrypt hash;
\* a stored value that is not a hash raises UnknownHashError, which gives False.
verify_password(plain_password, hashed_password) ==
    hashed_password.hashed /\ hashed_password.text = plain_password

\* POST /auth/token: 400 when no row has the email or the password does not
\* verify, else a token whose sub is the row's email.  The token is kept with
\* the id of the row it was issued for.
login_for_access_token(username, password) ==
    /\ request' = [schema |-> "OAuth2Form", endpoint |-> "login_for_access_token",
                   token |-> NO_TOKEN, username |-> username, password |-> password]
    /\ \E user \in get_current_user(users, username) :
          IF user = NULL_ID THEN reject("400")
          ELSE IF ~verify_password(password, users[user].password) THEN reject("400")
          ELSE /\ Cardinality(tokens \cup {[sub |-> users[user].email, user_id |-> user]})
                      <= MaxTokens
               /\ tokens' = tokens \cup {[sub |-> users[user].email, user_id |-> user]}
               /\ response' = "201"
               /\ UNCHANGED <<table_vars, example_links, translation_rows, users,
                              cardsets, cards>>

\* create_user, login, and update_user with no token or one that was issued.
NextLogin ==
    \/ \E email \in Emails : create_user(email, "pw1")
    \/ \E email \in Emails, password \in Passwords :
          login_for_access_token(email, password)
    \/ \E token \in {NO_TOKEN} \cup {tk.sub : tk \in tokens},
          user_id \in 1..MaxUsers,
          email \in {NULL} \cup Emails, password \in {NULL} \cup Passwords :
          update_user(token, user_id, email, password)

SpecLogin == InitUser /\ [][NextLogin]_vars

\* C28: get_current_user resolves every issued token to the row of the user it
\* was issued to, or to no row.
C28_TokenAuthenticatesItsUser ==
    \A tk \in tokens :
        get_current_user(users, tk.sub) \subseteq {NULL_ID, tk.user_id}

\* C28 witness: the token of user 1 names the email that only the row of user 2
\* holds now.
C28_Witness ==
    \E tk \in tokens :
        /\ tk.user_id = 1
        /\ Len(users) = 2
        /\ users[2].email = tk.sub
        /\ users[1].email # tk.sub

\* C29: a login step with the email of a user answers 201 when the password is
\* the one last set for that user (by create_user or update_user), and 400 when
\* it is another one.
C29_LoginWithCurrentPassword ==
    [][request'.endpoint = "login_for_access_token" =>
          \A i \in DOMAIN users :
              (users[i].email = request'.username
                   /\ \A j \in DOMAIN users : users[j].email = users[i].email => j = i)
              => /\ users[i].password.text = request'.password
                    => response' = "201"
                 /\ users[i].password.text # request'.password
                    => response' = "400"]_vars

\* C29 witness: a user whose password was set by update_user logged in with it
\* and was answered 400.
C29_Witness ==
    /\ request.endpoint = "login_for_access_token"
    /\ response = "400"
    /\ \E i \in DOMAIN users :
          /\ users[i].email = request.username
          /\ users[i].password.text = request.password
          /\ ~users[i].password.hashed
====
